---- MODULE Spec2Model ----
(***************************************************************************)
(* Regulation reconciliation and narrative generation of the water-quality *)
(* reporting tool: processing.py (clean_data, merge_data) and              *)
(* text_generation.py (get_base_statistics_text and the generate_text      *)
(* functions of the four modules).                                         *)
(*                                                                         *)
(* Numbers are fixed-point integers in thousandths (5.0 is 5000), so that  *)
(* halving a detection limit with up to two decimals is exact.  A nullable *)
(* number is a record [k, v]: k = "num" carries v, k = "nan" is the float  *)
(* NaN pandas stores for a missing number, k = "none" is Python's None.    *)
(* Text cells and column names are sequences of one-character / token      *)
(* strings so that parsing and prefix stripping are computed.              *)
(***************************************************************************)
EXTENDS Integers, Sequences, FiniteSets, TLC

VARIABLES
    page,                  \* st.session_state['page']: the module in use
    xls,                   \* the uploaded workbook
    selected_param,        \* the parameter whose records are narrated
    selected_regulations,  \* the column names selected for the narrative
    pc,                    \* position in the pipeline
    df_datos,              \* df_raw: the measurements load_data returned
    df_eca,                \* the regulation sheet load_data returned
    df_clean,              \* clean_data(df_datos)
    df_final,              \* merge_data(df_clean, df_eca)
    reg_groups,            \* get_regulation_groups(df_final)
    grupo_left,            \* the record set last handed to a generator
    informe,               \* what the narrative generator produced
    runs,                  \* the outputs of the runs so far
    st_error,              \* the messages shown with st.error
    exception              \* the exception that escaped, "" when none

\* what the user chose: nothing in the program changes it
inputs == <<page, xls, selected_param, selected_regulations>>

vars == <<inputs, pc, df_datos, df_eca, df_clean, df_final, reg_groups,
          grupo_left, informe, runs, st_error, exception>>

----------------------------------------------------------------------------
(* Bounds of the model *)

MaxRows == 3
MaxSel == 3
MaxValues == 2
MaxTable == 2
MaxRecords == 32
MaxRuns == 2
MaxLarge == 250
MaxEqual == 10

----------------------------------------------------------------------------
(* Numbers *)

Scale == 10 * 100

NaN == [k |-> "nan", v |-> 0]
None == [k |-> "none", v |-> 0]
Num(x) == [k |-> "num", v |-> x]

\* pd.isna / pd.notna on a scalar
isna(x) == x.k # "num"
notna(x) == x.k = "num"

Abs(x) == IF x < 0 THEN -x ELSE x

\* The folds over a sequence split it in two halves: the operations are exact
\* and associative, so the result is that of the left-to-right loop, and the
\* nesting stays logarithmic in the number of records.
Front(s) == SubSeq(s, 1, Len(s) \div 2)
Back(s) == SubSeq(s, Len(s) \div 2 + 1, Len(s))

RECURSIVE SumSeq(_)
SumSeq(s) == IF s = <<>> THEN 0
             ELSE IF Len(s) = 1 THEN s[1]
             ELSE SumSeq(Front(s)) + SumSeq(Back(s))

MinSeq(s) == CHOOSE m \in {s[i] : i \in 1..Len(s)} : \A i \in 1..Len(s) : m <= s[i]

MaxSeq(s) == CHOOSE m \in {s[i] : i \in 1..Len(s)} : \A i \in 1..Len(s) : m >= s[i]

----------------------------------------------------------------------------
(* Cells of the 'valor' column and their conversion to numbers *)

Digits == {"0", "1", "2", "3", "4", "5", "6", "7", "8", "9"}

DigitVal(c) ==
    CASE c = "0" -> 0 [] c = "1" -> 1 [] c = "2" -> 2 [] c = "3" -> 3
      [] c = "4" -> 4 [] c = "5" -> 5 [] c = "6" -> 6 [] c = "7" -> 7
      [] c = "8" -> 8 [] c = "9" -> 9

\* a cell is a number (n, in thousandths), a text (s) or blank
NumCell(n) == [t |-> "num", n |-> n, s |-> <<>>]
StrCell(s) == [t |-> "str", n |-> 0, s |-> s]
BlankCell == [t |-> "blank", n |-> 0, s |-> <<>>]

Contains(s, c) == \E i \in 1..Len(s) : s[i] = c

\* s.str.replace('<', '', regex=False)
RemoveLess(s) == SelectSeq(s, LAMBDA c : c # "<")

RECURSIVE DigitsValue(_)
DigitsValue(s) ==
    IF s = <<>> THEN 0
    ELSE DigitsValue(SubSeq(s, 1, Len(s) - 1)) * 10 + DigitVal(s[Len(s)])

\* the fraction digits of a decimal literal, in thousandths
FractionValue(s) ==
    CASE Len(s) = 0 -> 0
      [] Len(s) = 1 -> DigitsValue(s) * 100
      [] Len(s) = 2 -> DigitsValue(s) * 10
      [] OTHER -> DigitsValue(SubSeq(s, 1, 3))

\* an unsigned decimal literal: digits with at most one '.', at least one digit
ParseUnsigned(s) ==
    LET dots == {i \in 1..Len(s) : s[i] = "."}
        ok == /\ \A i \in 1..Len(s) : s[i] \in Digits \cup {"."}
              /\ Cardinality(dots) <= 1
              /\ \E i \in 1..Len(s) : s[i] \in Digits
    IN  IF ~ok THEN NaN
        ELSE IF dots = {} THEN Num(DigitsValue(s) * Scale)
        ELSE LET d == CHOOSE i \in dots : TRUE
             IN  Num(DigitsValue(SubSeq(s, 1, d - 1)) * Scale
                     + FractionValue(SubSeq(s, d + 1, Len(s))))

\* pd.to_numeric(text, errors='coerce') on one text
ParseFloat(s) ==
    IF s # <<>> /\ s[1] = "-"
    THEN LET u == ParseUnsigned(Tail(s)) IN IF isna(u) THEN NaN ELSE Num(-u.v)
    ELSE ParseUnsigned(s)

\* pd.to_numeric(cell, errors='coerce') on one original cell
ToNumeric(cell) ==
    CASE cell.t = "num" -> Num(cell.n)
      [] cell.t = "str" -> ParseFloat(cell.s)
      [] OTHER -> NaN

\* s_values.str.contains('<'): str() of a number or of a blank has no '<'
mask_less(cell) == cell.t = "str" /\ Contains(cell.s, "<")

\* clean_value without the division by two
clean_value_unhalved(cell) ==
    IF mask_less(cell) THEN ParseFloat(RemoveLess(cell.s)) ELSE ToNumeric(cell)

\* the value clean_data leaves in 'valor' for one cell
clean_value(cell) ==
    IF mask_less(cell)
    THEN LET x == ParseFloat(RemoveLess(cell.s))
         IN  IF isna(x) THEN NaN ELSE Num(x.v \div 2)
    ELSE ToNumeric(cell)

----------------------------------------------------------------------------
(* load_data: a workbook is [readable, sheets], sheets a function from the  *)
(* sheet names to the frames pd.read_excel gives                            *)

NoData == <<>>
NoError == ""

load_data(file) ==
    IF ~file.readable
    THEN [data |-> NoData, error |-> "Error al leer el archivo"]
    ELSE IF "datos" \notin DOMAIN file.sheets
    THEN [data |-> NoData, error |-> "Error: El archivo debe contener la hoja 'datos'."]
    ELSE IF "eca" \in DOMAIN file.sheets
    THEN [data |-> <<file.sheets["datos"], file.sheets["eca"]>>, error |-> NoError]
    ELSE IF "lmp" \in DOMAIN file.sheets
    THEN [data |-> <<file.sheets["datos"], file.sheets["lmp"]>>, error |-> NoError]
    ELSE IF "normativa" \in DOMAIN file.sheets
    THEN [data |-> <<file.sheets["datos"], file.sheets["normativa"]>>, error |-> NoError]
    ELSE [data |-> NoData,
          error |-> "Error: El archivo debe contener una hoja 'eca', 'lmp' o 'normativa'."]

----------------------------------------------------------------------------
(* Data frames: [columns |-> set of column names, header |-> the names in    *)
(* sheet order, rows |-> sequence of rows].  A column name is the sequence  *)
(* of its '_'-separated tokens.                                             *)

MapRows(f(_), rows) == [i \in 1..Len(rows) |-> f(rows[i])]

\* df['parametro'].astype(str) + " (" + df['unidad'].astype(str) + ")"
parametro_unidad(r) == r.parametro \o " (" \o r.unidad \o ")"

\* one row of clean_data before dropna: 'valor' is the nullable number
clean_row(r) ==
    [index |-> r.index, estacion |-> r.estacion, parametro |-> r.parametro,
     unidad |-> r.unidad, valor |-> clean_value(r.valor),
     es_LD |-> r.es_LD, valor_raw |-> r.valor_raw,
     parametro_unidad |-> parametro_unidad(r)]

\* the column made float without dropping the rows that hold no number
fillna_valor(rows) == MapRows(LAMBDA r : [r EXCEPT !.valor = r.valor.v], rows)

\* df.dropna(subset=['valor']) and the column made fully float
dropna_valor(rows) ==
    MapRows(LAMBDA r : [r EXCEPT !.valor = r.valor.v],
            SelectSeq(rows, LAMBDA r : notna(r.valor)))

\* the header after df[name] = ...: a new column goes last
with_column(header, name) ==
    IF \E i \in 1..Len(header) : header[i] = name THEN header ELSE Append(header, name)

clean_data(df) ==
    [columns |-> df.columns \cup {<<"parametro", "unidad">>},
     header |-> with_column(df.header, <<"parametro", "unidad">>),
     rows |-> dropna_valor(MapRows(clean_row, df.rows))]

\* the threshold columns of the regulation sheet
eca_value_columns(df) == df.columns \ {<<"parametro">>, <<"unidad">>}

\* a measurement row augmented with the thresholds of one regulation row
joined_row(r, lim) ==
    [index |-> 0, estacion |-> r.estacion, parametro |-> r.parametro,
     unidad |-> r.unidad, valor |-> r.valor,
     es_LD |-> r.es_LD, valor_raw |-> r.valor_raw,
     parametro_unidad |-> r.parametro_unidad, lim |-> lim]

\* the rows an inner join produces for one measurement row
inner_join_row(r, eca) ==
    MapRows(LAMBDA e : joined_row(r, e.lim),
            SelectSeq(eca.rows, LAMBDA e : e.parametro = r.parametro
                                           /\ e.unidad = r.unidad))

\* the rows a left join produces for one measurement row
left_join_row(r, eca) ==
    LET matches == SelectSeq(eca.rows, LAMBDA e : e.parametro = r.parametro
                                                  /\ e.unidad = r.unidad)
    IN  IF matches = <<>>
        THEN <<joined_row(r, [c \in eca_value_columns(eca) |-> NaN])>>
        ELSE MapRows(LAMBDA e : joined_row(r, e.lim), matches)

RECURSIVE left_join(_, _)
left_join(rows, eca) ==
    IF rows = <<>> THEN <<>>
    ELSE IF Len(rows) = 1 THEN left_join_row(rows[1], eca)
    ELSE left_join(Front(rows), eca) \o left_join(Back(rows), eca)

\* merge returns a frame with a fresh RangeIndex
reset_index(rows) == [i \in 1..Len(rows) |-> [rows[i] EXCEPT !.index = i - 1]]

\* df_datos.merge(df_eca, on=['parametro', 'unidad'], how='left')
merge_data(datos, eca) ==
    [columns |-> datos.columns \cup eca.columns,
     header |-> datos.header
                \o SelectSeq(eca.header, LAMBDA c : c \in eca_value_columns(eca)),
     rows |-> reset_index(left_join(datos.rows, eca))]

----------------------------------------------------------------------------
(* Rendering of numbers *)

\* the decimal digits of x (thousandths), as str() prints a float: at least
\* one fraction digit, no trailing zeros, with sep in place of the point
FloatText(x, sep) ==
    LET a == Abs(x)
        ip == a \div Scale
        fr == a % Scale
        frac == IF fr % 100 = 0 THEN ToString(fr \div 100)
                ELSE IF fr % 10 = 0
                     THEN ToString(fr \div 100) \o ToString((fr \div 10) % 10)
                     ELSE ToString(fr \div 100) \o ToString((fr \div 10) % 10)
                          \o ToString(fr % 10)
    IN  (IF x < 0 THEN "-" ELSE "") \o ToString(ip) \o sep \o frac

\* str(x).replace('.', ',')
str_comma(x) == FloatText(x, ",")

\* locale.format_string("%g", val).replace(".", ","): up to six significant
\* digits (exact below one thousand), no trailing zeros, no bare separator
format_number(val) ==
    IF isna(val) THEN "NaN"
    ELSE IF val.v % Scale = 0
         THEN (IF val.v < 0 THEN "-" ELSE "") \o ToString(Abs(val.v) \div Scale)
         ELSE FloatText(val.v, ",")

\* round(num / den, nd) of Python 3 for num >= 0, den > 0 and nd in 0..3, in
\* thousandths: nearest multiple of 10^-nd, an exact tie going to the even one
py_round(num, den, nd) ==
    LET p == 10 ^ nd
        q == (num * p) \div den
        r == (num * p) % den
        up == \/ 2 * r > den
              \/ (2 * r = den /\ q % 2 = 1)
    IN  (IF up THEN q + 1 ELSE q) * (Scale \div p)

\* format_percent(val)
format_percent(val) == IF isna(val) THEN "NaN" ELSE str_comma(val.v)

\* an f-string field holding a count or None
py_str(x) == IF x.k = "none" THEN "None" ELSE IF x.k = "nan" THEN "nan" ELSE ToString(x.v)

\* the w digits of d, most significant first, without the trailing zeros
RECURSIVE DigitsText(_, _)
DigitsText(d, w) ==
    IF w = 0 \/ d = 0 THEN ""
    ELSE ToString(d \div (10 ^ (w - 1))) \o DigitsText(d % (10 ^ (w - 1)), w - 1)

\* format_number of the unrounded mean num / (den * 1000) when its magnitude is
\* below 0.1 (and at least 0.0001, where "%g" still prints fixed notation)
format_small_mean(num, den) ==
    LET a == Abs(num)
        e == IF a * 100 >= den * Scale THEN 2
             ELSE IF a * 1000 >= den * Scale THEN 3 ELSE 4
        q == (a * (10 ^ (5 + e))) \div (den * Scale)
        r == (a * (10 ^ (5 + e))) % (den * Scale)
        d == IF 2 * r > den * Scale \/ (2 * r = den * Scale /\ q % 2 = 1)
             THEN q + 1 ELSE q
        zeros == IF e = 2 THEN "0" ELSE IF e = 3 THEN "00" ELSE "000"
    IN  IF num = 0 THEN "0"
        ELSE (IF num < 0 THEN "-" ELSE "") \o "0," \o zeros \o DigitsText(d, 6)

\* prom_t: the mean, rounded to two decimals only when |mean| >= 0.1
mean_text(valores) ==
    LET total == SumSeq(valores)
        n == Len(valores)
    IN  IF Abs(total) >= 100 * n
        THEN LET m == py_round(Abs(total), n * Scale, 2)
             IN  format_number(Num(IF total < 0 THEN -m ELSE m))
        ELSE format_small_mean(total, n)

----------------------------------------------------------------------------
(* get_base_statistics_text: the statistics sentence shared by the modules *)

\* code points of the characters the cells are written with
CharCode(c) ==
    CASE c = "," -> 44 [] c = "-" -> 45 [] c = "." -> 46 [] c = "<" -> 60
      [] c \in Digits -> 48 + DigitVal(c)
      [] c = "a" -> 97 [] c = "x" -> 120
      [] OTHER -> 63

\* Python's < on two str
RECURSIVE StrLess(_, _)
StrLess(a, b) ==
    IF a = <<>> THEN b # <<>>
    ELSE IF b = <<>> THEN FALSE
    ELSE IF a[1] = b[1] THEN StrLess(Tail(a), Tail(b))
    ELSE CharCode(a[1]) < CharCode(b[1])

\* sorted(list(S)) of a set of numbers
RECURSIVE SortedNumbers(_)
SortedNumbers(S) ==
    IF S = {} THEN <<>>
    ELSE LET m == CHOOSE x \in S : \A y \in S : x <= y
         IN  <<m>> \o SortedNumbers(S \ {m})

\* sorted(list(S)) of a set of str
RECURSIVE SortedStrings(_)
SortedStrings(S) ==
    IF S = {} THEN <<>>
    ELSE LET m == CHOOSE x \in S : \A y \in S \ {x} : StrLess(x, y)
         IN  <<m>> \o SortedStrings(S \ {m})

\* the text of one character sequence, for the output
RECURSIVE JoinChars(_)
JoinChars(s) == IF s = <<>> THEN "" ELSE s[1] \o JoinChars(Tail(s))

\* raw.replace("<", "").replace(",", ".")
ld_raw(raw) == [i \in 1..Len(RemoveLess(raw)) |->
                   IF RemoveLess(raw)[i] = "," THEN "." ELSE RemoveLess(raw)[i]]

\* the flags with the column of the record set ignored
es_LD_list_unflagged(grupo) == [i \in 1..Len(grupo.rows) |-> FALSE]

\* grupo["es_LD"].tolist(), the column being created as False when absent
es_LD_list(grupo) ==
    [i \in 1..Len(grupo.rows) |->
        IF <<"es", "LD">> \in grupo.columns THEN grupo.rows[i].es_LD ELSE FALSE]

\* the raw detection limits of the flagged rows; without a 'valor_raw' column
\* the raw text is str(valor), which holds no '<'
ld_raw_values(grupo) ==
    LET flags == es_LD_list(grupo)
        keep == SelectSeq(grupo.rows, LAMBDA r :
                    /\ (IF <<"es", "LD">> \in grupo.columns THEN r.es_LD ELSE FALSE)
                    /\ <<"valor", "raw">> \in grupo.columns
                    /\ Contains(r.valor_raw, "<"))
    IN  MapRows(LAMBDA r : ld_raw(r.valor_raw), keep)

\* ld_unicos: the distinct limits as floats, ascending; when one of them is not
\* a float, the distinct raw texts in str order
ld_unicos(grupo) ==
    LET raws == ld_raw_values(grupo)
        texts == {raws[i] : i \in 1..Len(raws)}
    IN  IF \A t \in texts : notna(ParseFloat(t))
        THEN MapRows(str_comma,
                     SortedNumbers({ParseFloat(t).v : t \in texts}))
        ELSE MapRows(JoinChars, SortedStrings(texts))

\* the record set with every record flagged when the column is created
grupo_after_flagged(grupo) ==
    [columns |-> grupo.columns \cup {<<"es", "LD">>},
     header |-> with_column(grupo.header, <<"es", "LD">>),
     rows |-> MapRows(LAMBDA r : [r EXCEPT !.es_LD = TRUE], grupo.rows)]

\* the record set as the call leaves it: grupo['es_LD'] = False when the
\* column was absent
grupo_after(grupo) ==
    IF <<"es", "LD">> \in grupo.columns THEN grupo
    ELSE [columns |-> grupo.columns \cup {<<"es", "LD">>},
          header |-> with_column(grupo.header, <<"es", "LD">>),
          rows |-> MapRows(LAMBDA r : [r EXCEPT !.es_LD = FALSE], grupo.rows)]

\* grupo["parametro"].iloc[0] on a record set without rows raises IndexError
\* before anything else is computed; "" when the call goes through
raised(grupo) == IF grupo.rows = <<>> THEN "IndexError" ELSE ""

get_base_statistics_text(grupo) ==
    LET flags == es_LD_list(grupo)
        valores_numericos == [i \in 1..Len(grupo.rows) |-> grupo.rows[i].valor]
        form == IF \A i \in DOMAIN flags : flags[i] THEN "todos_LD"
                ELSE IF ~(\E i \in DOMAIN flags : flags[i]) THEN "sin_LD"
                ELSE "mixto"
    IN  [texto |-> [tpl |-> "base", form |-> form,
                    param |-> grupo.rows[1].parametro,
                    unidad |-> grupo.rows[1].unidad,
                    ld_unicos |-> ld_unicos(grupo),
                    min_t |-> format_number(Num(MinSeq(valores_numericos))),
                    max_t |-> format_number(Num(MaxSeq(valores_numericos))),
                    prom_t |-> mean_text(valores_numericos)],
         valores_numericos |-> valores_numericos,
         es_LD_list |-> flags]

----------------------------------------------------------------------------
(* Column names and standard keys *)

\* name.replace(pat + "_", ""): every occurrence of the tokens pat that is
\* followed by a further token is removed
RECURSIVE replace_prefix(_, _)
replace_prefix(name, pat) ==
    IF name = <<>> THEN <<>>
    ELSE IF Len(name) > Len(pat) /\ SubSeq(name, 1, Len(pat)) = pat
         THEN replace_prefix(SubSeq(name, Len(pat) + 1, Len(name)), pat)
         ELSE <<name[1]>> \o replace_prefix(Tail(name), pat)

\* col.replace("lim_inf_", "").replace("lim_sup_", "").replace("lim_", "")
clean_key(col) ==
    replace_prefix(replace_prefix(replace_prefix(col, <<"lim", "inf">>),
                                  <<"lim", "sup">>), <<"lim">>)

\* pat in name, for a pattern made of whole tokens
has_tokens(name, pat) ==
    \E i \in 1..(Len(name) - Len(pat) + 1) : SubSeq(name, i, i + Len(pat) - 1) = pat

\* key.replace("_", " ").upper() for the keys of the model
UpperToken(t) ==
    CASE t = "eca" -> "ECA" [] t = "lga" -> "LGA" [] t = "3d1" -> "3D1"
      [] t = "3d2" -> "3D2" [] t = "1a1" -> "1A1" [] t = "1a2" -> "1A2"
      [] t = "i" -> "I" [] t = "ii" -> "II"
      [] t = "lmp" -> "LMP" [] t = "nmp" -> "NMP" [] t = "minero" -> "MINERO"
      [] t = "domestico" -> "DOMESTICO" [] t = "freshwater" -> "FRESHWATER"
      [] t = "marine" -> "MARINE" [] t = "referencia" -> "REFERENCIA"
      [] t = "gw" -> "GW" [] t = "inf" -> "INF" [] t = "sup" -> "SUP"
      [] OTHER -> t

RECURSIVE upper_spaced(_)
upper_spaced(key) ==
    IF key = <<>> THEN ""
    ELSE IF Len(key) = 1 THEN UpperToken(key[1])
    ELSE UpperToken(key[1]) \o " " \o upper_spaced(Tail(key))

\* the unique standard keys of the selection, in encounter order
RECURSIVE active_keys_from(_, _)
active_keys_from(selected, acc) ==
    IF selected = <<>> THEN acc
    ELSE LET clean == clean_key(selected[1])
         IN  active_keys_from(Tail(selected),
                 IF \E i \in 1..Len(acc) : acc[i] = clean THEN acc
                 ELSE Append(acc, clean))

active_keys(selected) == active_keys_from(selected, <<>>)

k1 == <<"eca", "2017", "3d1">>
k2 == <<"eca", "2017", "3d2">>

\* reg_meta: key -> (description, category name); accents are dropped
reg_meta ==
    ( <<"eca", "2017", "1a1">> :> <<"aguas que pueden ser potabilizadas con desinfeccion", "1 - A1">>
   @@ <<"eca", "2017", "1a2">> :> <<"aguas que pueden ser potabilizadas con tratamiento convencional", "1 - A2">>
   @@ <<"eca", "2017", "1a3">> :> <<"aguas que pueden ser potabilizadas con tratamiento avanzado", "1 - A3">>
   @@ <<"eca", "2017", "1b1">> :> <<"aguas superficiales destinadas para recreacion de contacto primario", "1 - B1">>
   @@ <<"eca", "2017", "1b2">> :> <<"aguas superficiales destinadas para recreacion de contacto secundario", "1 - B2">>
   @@ <<"eca", "2017", "2c1">> :> <<"extraccion y cultivo de moluscos, equinodermos y tunicados en aguas marino costeras", "2 - C1">>
   @@ <<"eca", "2017", "2c2">> :> <<"extraccion y cultivo de otras especies hidrobiologicas en aguas marino costeras", "2 - C2">>
   @@ <<"eca", "2017", "2c3">> :> <<"actividades marino portuarias, industriales o de saneamiento en aguas marino costeras", "2 - C3">>
   @@ <<"eca", "2017", "2c4">> :> <<"extraccion y cultivo de especies hidrobiologicas en lagos y lagunas", "2 - C4">>
   @@ k1 :> <<"riego de vegetales", "3 - D1">>
   @@ k2 :> <<"bebida de animales", "3 - D2">>
   @@ <<"eca", "2017", "4e1">> :> <<"conservacion del ambiente acuatico para lagunas y lagos", "4 - E1">>
   @@ <<"eca", "2017", "4e2", "cys">> :> <<"conservacion del ambiente acuatico para rios", "4 - E2 costa y sierra">>
   @@ <<"eca", "2017", "4e2", "s">> :> <<"conservacion del ambiente acuatico para rios", "4 - E2 selva">>
   @@ <<"eca", "2017", "4e3", "e">> :> <<"conservacion del ambiente acuatico para ecosistemas costeros y marinos", "4 - E3 estuarios">>
   @@ <<"eca", "2017", "4e3", "m">> :> <<"conservacion del ambiente acuatico para ecosistemas costeros y marinos", "4 - E3 marinos">>
   @@ <<"lga", "i">> :> <<"", "I">>
   @@ <<"lga", "ii">> :> <<"", "II">>
   @@ <<"lga", "iii">> :> <<"", "III">>
   @@ <<"lga", "iv">> :> <<"", "IV">>
   @@ <<"lga", "v">> :> <<"", "V">>
   @@ <<"lga", "vi">> :> <<"", "VI">>
   @@ <<"eca", "2008", "1a1">> :> <<"aguas que pueden ser potabilizadas con desinfeccion", "1 - A1">> )

\* the lookup with the generic label for every key
reg_meta_get_generic(key) == <<"", upper_spaced(key)>>

\* reg_meta.get(key, ("", key.replace("_", " ").upper()))
reg_meta_get(key) ==
    IF key \in DOMAIN reg_meta THEN reg_meta[key] ELSE <<"", upper_spaced(key)>>

\* grupo.get(name, pd.Series([None])).iloc[0]
grupo_get(grupo, name) ==
    IF name \in grupo.columns /\ name \in DOMAIN grupo.rows[1].lim
    THEN grupo.rows[1].lim[name] ELSE None

----------------------------------------------------------------------------
(* get_regulation_columns and get_regulation_groups *)

\* col.startswith('lim_') or col.startswith('ISGQ') or col.startswith('PEL')
is_regulation_column(col) ==
    \/ (Len(col) >= 2 /\ col[1] = "lim")
    \/ col[1] = "ISGQ"
    \/ col[1] = "PEL"

get_regulation_columns(df) == SelectSeq(df.header, is_regulation_column)

\* the friendly name with the bound indicator left in
friendly_name_with_bound(col) == upper_spaced(col)

\* friendly_name of one regulation column
friendly_name(col) ==
    IF Contains(col, "ISGQ") \/ Contains(col, "PEL")
    THEN (IF Len(col) >= 2 THEN "CCME " \o UpperToken(col[2]) ELSE "CCME SEDIMENTOS")
    ELSE upper_spaced(clean_key(col))

\* groups[friendly_name].append(col), a new name opening a new group: the dict
\* as the sequence of its items, in insertion order
RECURSIVE group_columns(_, _)
group_columns(cols, groups) ==
    IF cols = <<>> THEN groups
    ELSE LET name == friendly_name(cols[1])
         IN  group_columns(Tail(cols),
                 IF \E g \in 1..Len(groups) : groups[g].name = name
                 THEN [g \in 1..Len(groups) |->
                          IF groups[g].name = name
                          THEN [groups[g] EXCEPT !.cols = Append(@, cols[1])]
                          ELSE groups[g]]
                 ELSE Append(groups, [name |-> name, cols |-> <<cols[1]>>]))

get_regulation_groups(df) == group_columns(get_regulation_columns(df), <<>>)

----------------------------------------------------------------------------
(* Compliance evaluation *)

\* v < limit and v > limit of Python: a comparison with NaN is False
below(v, limit) == limit.k = "num" /\ v < limit.v
above(v, limit) == limit.k = "num" /\ v > limit.v

\* the loop with a value equal to a bound counted as failing
count_inc_strict(vals, limit_inf, limit_sup) ==
    Cardinality({i \in 1..Len(vals) :
                    \/ (limit_inf.k = "num" /\ vals[i] <= limit_inf.v)
                    \/ (limit_sup.k = "num" /\ vals[i] >= limit_sup.v)})

\* the loop of check_compliance / check_inc over the values
count_inc(vals, limit_inf, limit_sup) ==
    Cardinality({i \in 1..Len(vals) :
                    \/ (limit_inf.k # "none" /\ below(vals[i], limit_inf))
                    \/ (limit_sup.k # "none" /\ above(vals[i], limit_sup))})

\* the evaluation looking at the upper bound only
check_compliance_upper(vals, limit_inf, limit_sup) ==
    IF isna(limit_inf) /\ isna(limit_sup) THEN None
    ELSE Num(count_inc(vals, None, limit_sup))

\* generate_text_surface.check_compliance: None, or the count as a number
check_compliance(vals, limit_inf, limit_sup) ==
    IF isna(limit_inf) /\ isna(limit_sup) THEN None
    ELSE Num(count_inc(vals, limit_inf, limit_sup))

\* format_limits / fmt_lims
format_limits(inf, sup) ==
    IF notna(inf) /\ notna(sup) THEN str_comma(inf.v) \o " a " \o str_comma(sup.v)
    ELSE IF notna(sup) THEN str_comma(sup.v)
    ELSE IF notna(inf) THEN str_comma(inf.v)
    ELSE ""

\* round(100 * inc / n_total, nd) if inc is not None else None
porcentaje(inc, n_total, nd) ==
    IF inc.k = "none" THEN None ELSE Num(py_round(100 * inc.v, n_total, nd))

----------------------------------------------------------------------------
(* generate_text_surface *)

\* A clause of the narrative is a record: tpl names the sentence template of
\* the source, keys the standards it is about, the other fields its f-string
\* fields.  ev is the compliance result the clause was chosen from.

evaluation(key, inf, sup, inc, n_total) ==
    [key |-> key, inf |-> inf, sup |-> sup, inc |-> inc, n_total |-> n_total]

\* p1_txt / p2_txt of the combined clause
combo_part(inc, porc, n_total) ==
    IF inc = Num(0) THEN [kind |-> "cumplen", n |-> "", pct |-> ""]
    ELSE IF inc = Num(n_total) THEN [kind |-> "no_cumplen", n |-> "", pct |-> ""]
    ELSE [kind |-> "parcial", n |-> py_str(inc), pct |-> format_percent(porc)]

\* the clause of the combined ECA 2017 3D1 + 3D2 path
combo_clause(grupo, vals) ==
    LET n_total == Len(vals)
        unidad == grupo.rows[1].unidad
        inf1 == grupo_get(grupo, <<"lim", "inf">> \o k1)
        sup1 == grupo_get(grupo, <<"lim", "sup">> \o k1)
        inc1 == check_compliance(vals, inf1, sup1)
        inf2 == grupo_get(grupo, <<"lim", "inf">> \o k2)
        sup2 == grupo_get(grupo, <<"lim", "sup">> \o k2)
        inc2 == check_compliance(vals, inf2, sup2)
        porc1 == porcentaje(inc1, n_total, 2)
        porc2 == porcentaje(inc2, n_total, 2)
        kind == IF isna(inf1) /\ isna(sup1) /\ isna(inf2) /\ isna(sup2) THEN "no_existe"
                ELSE IF inc1 = Num(0) /\ inc2 = Num(0) THEN "cumplen"
                ELSE IF inc1 = Num(n_total) /\ inc2 = Num(n_total) THEN "no_cumplen"
                ELSE "mixto"
    IN  [tpl |-> "combo_3d", kind |-> kind, keys |-> <<k1, k2>>, std |-> "ECA 2017",
         lim1 |-> format_limits(inf1, sup1), lim2 |-> format_limits(inf2, sup2),
         unidad |-> unidad,
         p1 |-> combo_part(inc1, porc1, n_total),
         p2 |-> combo_part(inc2, porc2, n_total),
         ev |-> <<evaluation(k1, inf1, sup1, inc1, n_total),
                  evaluation(k2, inf2, sup2, inc2, n_total)>>]

\* the clause the general loop appends for one key
key_clause(grupo, vals, key) ==
    LET n_total == Len(vals)
        meta == reg_meta_get(key)
        std_name == IF has_tokens(key, <<"eca", "2017">>) THEN "ECA 2017"
                    ELSE IF has_tokens(key, <<"eca", "2008">>) THEN "ECA 2008"
                    ELSE "LGA"
        inf == grupo_get(grupo, <<"lim", "inf">> \o key)
        sup == grupo_get(grupo, <<"lim", "sup">> \o key)
        inc == check_compliance(vals, inf, sup)
        porc == porcentaje(inc, n_total, 0)
        kind == IF inc.k = "none" THEN "no_existe"
                ELSE IF inc = Num(0) THEN "cumplen"
                ELSE IF inc = Num(n_total) THEN "no_cumplen"
                ELSE "parcial"
    IN  [tpl |-> "surface_key", kind |-> kind, keys |-> <<key>>, std |-> std_name,
         cat |-> meta[2], desc |-> meta[1],
         lim |-> format_limits(inf, sup), unidad |-> grupo.rows[1].unidad,
         n |-> IF kind = "parcial" THEN py_str(inc) ELSE "",
         pct |-> IF kind = "parcial" THEN format_percent(porc) ELSE "",
         ev |-> <<evaluation(key, inf, sup, inc, n_total)>>]

\* the combined path running as soon as one of the two keys is active
combo_3d_either(keys) ==
    \/ \E i \in 1..Len(keys) : keys[i] = k1
    \/ \E i \in 1..Len(keys) : keys[i] = k2

\* whether the combined path runs
combo_3d(keys) ==
    /\ \E i \in 1..Len(keys) : keys[i] = k1
    /\ \E i \in 1..Len(keys) : keys[i] = k2

\* the combined path not recording the keys it consumed
keys_processed_forgotten(keys) == {}

\* keys_processed after the combined path
keys_processed(keys) == IF combo_3d(keys) THEN {k1, k2} ELSE {}

\* the general loop: one clause per key not already processed
general_loop(grupo, vals, keys) ==
    MapRows(LAMBDA key : key_clause(grupo, vals, key),
            SelectSeq(keys, LAMBDA key : key \notin keys_processed(keys)))

NoInforme ==
    [module |-> "", texto_list |-> <<>>, valores_numericos |-> <<>>,
     es_LD_list |-> <<>>, active |-> <<>>]

generate_text_surface(grupo, selected) ==
    LET base == get_base_statistics_text(grupo)
        vals == base.valores_numericos
        keys == active_keys(selected)
    IN  [module |-> "surface",
         texto_list |-> <<base.texto>>
                        \o (IF combo_3d(keys) THEN <<combo_clause(grupo, vals)>> ELSE <<>>)
                        \o general_loop(grupo, vals, keys),
         valores_numericos |-> vals,
         es_LD_list |-> base.es_LD_list,
         active |-> keys]

----------------------------------------------------------------------------
(* IEEE-754 doubles *)

\* The only element of a one-element set.  An operator written as
\* Only({e(v) : v \in {x}}) works on the value v of its argument x.
Only(S) == CHOOSE v \in S : TRUE

\* A natural number of any size is the sequence of its digits in base
\* LimbBase, least significant first, without leading zero digits.
LimbBits == 15
LimbBase == 2 ^ LimbBits

Limb(a, i) == IF i <= Len(a) THEN a[i] ELSE 0

BNorm(x) ==
    Only({LET nz == {i \in 1..Len(a) : a[i] # 0}
          IN  IF nz = {} THEN <<>>
              ELSE SubSeq(a, 1, CHOOSE i \in nz : \A j \in nz : j <= i) : a \in {x}})

BFromInt(x) == BNorm(<<x % LimbBase, (x \div LimbBase) % LimbBase,
                       x \div (LimbBase * LimbBase)>>)

BAdd(x, y) ==
    Only({LET n == (IF Len(a) > Len(b) THEN Len(a) ELSE Len(b)) + 1
              c[i \in 1..n] ==
                  IF i = 1 THEN 0
                  ELSE (Limb(a, i - 1) + Limb(b, i - 1) + c[i - 1]) \div LimbBase
          IN  BNorm([i \in 1..n |-> (Limb(a, i) + Limb(b, i) + c[i]) % LimbBase])
          : a \in {x}, b \in {y}})

\* x - y for x >= y
BSub(x, y) ==
    Only({LET n == Len(a)
              br[i \in 1..n] ==
                  IF i = 1 THEN 0
                  ELSE IF Limb(a, i - 1) - Limb(b, i - 1) - br[i - 1] < 0 THEN 1 ELSE 0
          IN  BNorm([i \in 1..n |->
                        (Limb(a, i) + LimbBase - Limb(b, i) - br[i]) % LimbBase])
          : a \in {x}, b \in {y}})

\* -1, 0 or 1 as x is below, equal to or above y
BCmp(x, y) ==
    Only({IF Len(a) # Len(b) THEN (IF Len(a) < Len(b) THEN -1 ELSE 1)
          ELSE LET diff == {i \in 1..Len(a) : a[i] # b[i]}
               IN  IF diff = {} THEN 0
                   ELSE LET i == CHOOSE j \in diff : \A k \in diff : k <= j
                        IN  IF a[i] < b[i] THEN -1 ELSE 1
          : a \in {x}, b \in {y}})

\* x * k for 0 <= k < LimbBase
BMulSmall(x, k) ==
    Only({LET n == Len(a) + 1
              c[i \in 1..n] == IF i = 1 THEN 0
                               ELSE (a[i - 1] * k + c[i - 1]) \div LimbBase
          IN  BNorm([i \in 1..n |-> (Limb(a, i) * k + c[i]) % LimbBase])
          : a \in {x}})

\* x * 2^s and x \div 2^s
BShl(x, s) ==
    Only({IF a = <<>> THEN <<>>
          ELSE BMulSmall([i \in 1..(s \div LimbBits) |-> 0] \o a, 2 ^ (s % LimbBits))
          : a \in {x}})

\* quotient and remainder of x by k for 0 < k < LimbBase
BDivSmall(x, k) ==
    Only({LET n == Len(a)
              r[i \in 1..(n + 1)] == IF i = n + 1 THEN 0
                                     ELSE (r[i + 1] * LimbBase + a[i]) % k
          IN  [q |-> BNorm([i \in 1..n |-> (r[i + 1] * LimbBase + a[i]) \div k]),
               r |-> r[1]]
          : a \in {x}})

BShr(x, s) ==
    Only({IF s \div LimbBits >= Len(a) THEN <<>>
          ELSE BDivSmall(SubSeq(a, s \div LimbBits + 1, Len(a)), 2 ^ (s % LimbBits)).q
          : a \in {x}})

\* x * y, one digit of y at a time
RECURSIVE BMulFrom(_, _, _)
BMulFrom(a, b, i) ==
    IF i > Len(b) THEN <<>>
    ELSE Only({BAdd(BMulSmall(a, b[i]), BShl(rest, LimbBits))
               : rest \in {BMulFrom(a, b, i + 1)}})

BMul(x, y) == Only({BMulFrom(a, b, 1) : a \in {x}, b \in {y}})

\* the number of binary digits of x
BBitLen(x) ==
    Only({IF a = <<>> THEN 0
          ELSE LimbBits * (Len(a) - 1)
               + (CHOOSE k \in 1..LimbBits :
                      2 ^ (k - 1) <= a[Len(a)] /\ a[Len(a)] < 2 ^ k)
          : a \in {x}})

\* binary digit i of a, digit 0 the least significant
BBit(a, i) == (Limb(a, i \div LimbBits + 1) \div (2 ^ (i % LimbBits))) % 2

\* the number of trailing zero binary digits of x # 0
BTrailingZeros(x) ==
    Only({LET ones == {i \in 0..(LimbBits * Len(a)) : BBit(a, i) = 1}
          IN  CHOOSE i \in ones : \A j \in ones : i <= j
          : a \in {x}})

\* the largest r with r * r <= a, found from binary digit bit down, two
\* digits in a step, each step working on the value of the step before
BSqrtDigit(a, r, bit) ==
    IF bit < 0 THEN r
    ELSE Only({IF BCmp(BMul(c, c), a) <= 0 THEN c ELSE v
               : v \in {r}, c \in {BAdd(r, BShl(<<1>>, bit))}})

RECURSIVE BSqrtFrom(_, _, _)
BSqrtFrom(a, r, bit) ==
    IF bit < 0 THEN r
    ELSE Only({BSqrtFrom(a, v, bit - 2)
               : v \in {BSqrtDigit(a, BSqrtDigit(a, r, bit), bit - 1)}})

BSqrt(x) == Only({BSqrtFrom(a, <<>>, BBitLen(a) \div 2) : a \in {x}})

\* A finite number s * m * 2^e with m odd, or zero: the doubles are those
\* whose m has at most Precision binary digits (no number of the model is
\* near the ends of the exponent range).
Precision == 53

FZero == [s |-> 1, m |-> <<>>, e |-> 0]

Canon(s, x, e) ==
    Only({IF m = <<>> THEN FZero
          ELSE Only({[s |-> s, m |-> BShr(m, tz), e |-> e + tz]
                     : tz \in {BTrailingZeros(m)}})
          : m \in {x}})

\* the nearest double, a tie going to the even mantissa
Fl(x) ==
    Only({LET len == BBitLen(v.m)
              sh == len - Precision
              q == BShr(v.m, sh)
              tie == BTrailingZeros(v.m) = sh - 1
              up == BBit(v.m, sh - 1) = 1 /\ (~tie \/ BBit(q, 0) = 1)
          IN  IF len <= Precision THEN v
              ELSE Canon(v.s, IF up THEN BAdd(q, <<1>>) ELSE q, v.e + sh)
          : v \in {x}})

FNeg(x) == Only({IF v.m = <<>> THEN v ELSE [v EXCEPT !.s = -v.s] : v \in {x}})

\* the exact sum
DAdd(x0, y0) ==
    Only({IF x.m = <<>> THEN y
          ELSE IF y.m = <<>> THEN x
          ELSE LET e == IF x.e < y.e THEN x.e ELSE y.e
               IN  Only({IF x.s = y.s THEN Canon(x.s, BAdd(mx, my), e)
                         ELSE IF BCmp(mx, my) = 0 THEN FZero
                         ELSE IF BCmp(mx, my) > 0 THEN Canon(x.s, BSub(mx, my), e)
                         ELSE Canon(y.s, BSub(my, mx), e)
                         : mx \in {BShl(x.m, x.e - e)}, my \in {BShl(y.m, y.e - e)}})
          : x \in {x0}, y \in {y0}})

\* x + y, x - y, x * y of two doubles
FAdd(x, y) == Fl(DAdd(x, y))
FSub(x, y) == Fl(DAdd(x, FNeg(y)))
FMul(x0, y0) ==
    Only({Fl(Canon(x.s * y.s, BMul(x.m, y.m), x.e + y.e)) : x \in {x0}, y \in {y0}})

\* x < y, and abs(x)
FLess(x, y) == DAdd(x, FNeg(y)).s = -1
FAbs(x) == Only({[v EXCEPT !.s = 1] : v \in {x}})

\* x / k for an integer 0 < k < LimbBase: the quotient carries GuardBits
\* further binary digits and one more that is set when the division is not
\* exact, which decides the rounding
GuardBits == 75

FDivInt(x0, k) ==
    Only({IF x.m = <<>> THEN x
          ELSE Only({Fl(Canon(x.s, BAdd(BShl(d.q, 1), IF d.r = 0 THEN <<>> ELSE <<1>>),
                              x.e - GuardBits - 1))
                     : d \in {BDivSmall(BShl(x.m, GuardBits), k)}})
          : x \in {x0}})

\* math.sqrt / np.sqrt of x >= 0
FSqrt(x0) ==
    Only({IF x.m = <<>> THEN x
          ELSE LET t0 == 2 * Precision + 4 - BBitLen(x.m)
                   t == t0 + ((x.e + t0 + 2 * LimbBase) % 2)
               IN  Only({Fl(Canon(1, BAdd(BShl(r, 1),
                                          IF BCmp(BMul(r, r), a) = 0 THEN <<>>
                                          ELSE <<1>>),
                                  (x.e - t) \div 2 - 1))
                         : a \in {BShl(x.m, t)}, r \in {BSqrt(BShl(x.m, t))}})
          : x \in {x0}})

\* the double of an integer, and of a number given in thousandths
FInt(x) == Canon(IF x < 0 THEN -1 ELSE 1, BFromInt(IF x < 0 THEN -x ELSE x), 0)
FNum(v) == FDivInt(FInt(v), Scale)

\* sum() of CPython up to 3.11: one addition after the other
RECURSIVE sum_plain(_, _, _)
sum_plain(xs, i, acc) ==
    IF i > Len(xs) THEN acc
    ELSE Only({sum_plain(xs, i + 1, v) : v \in {FAdd(acc, xs[i])}})

\* sum() of CPython from 3.12 on: the rounding errors of the additions are
\* collected in c and added at the end (Neumaier)
RECURSIVE sum_compensated(_, _, _, _)
sum_compensated(xs, i, acc, comp) ==
    IF i > Len(xs)
    THEN Only({IF c = FZero THEN acc ELSE FAdd(acc, c) : c \in {comp}})
    ELSE Only({sum_compensated(xs, i + 1, t,
                   FAdd(c, IF FLess(FAbs(s), FAbs(xs[i]))
                           THEN FAdd(FSub(xs[i], t), s)
                           ELSE FAdd(FSub(s, t), xs[i])))
               : s \in {acc}, c \in {comp}, t \in {FAdd(acc, xs[i])}})

SumBuilds == {"sum_left_to_right", "sum_compensated"}

py_sum(xs, build) ==
    IF build = "sum_compensated" THEN sum_compensated(xs, 1, FZero, FZero)
    ELSE sum_plain(xs, 1, FZero)

\* numpy's add.reduce over a contiguous array (pairwise summation): fewer than
\* PairwiseUnroll elements are added in order; up to PairwiseBlock elements go
\* to PairwiseUnroll accumulators that are added in pairs, the elements left
\* over after them in order; longer arrays are split in two
PairwiseUnroll == 8
PairwiseBlock == 128

RECURSIVE np_sum(_)
np_sum(x) ==
    Only({LET n == Len(xs)
              m == n - (n % PairwiseUnroll)
              r == [j \in 1..PairwiseUnroll |->
                       sum_plain([k \in 1..((m \div PairwiseUnroll) - 1) |->
                                     xs[j + PairwiseUnroll * k]], 1, xs[j])]
              n2 == (n \div 2) - ((n \div 2) % PairwiseUnroll)
          IN  IF n < PairwiseUnroll THEN sum_plain(xs, 1, FZero)
              ELSE IF n <= PairwiseBlock
              THEN sum_plain(SubSeq(xs, m + 1, n), 1,
                       FAdd(FAdd(FAdd(r[1], r[2]), FAdd(r[3], r[4])),
                            FAdd(FAdd(r[5], r[6]), FAdd(r[7], r[8]))))
              ELSE FAdd(np_sum(SubSeq(xs, 1, n2)), np_sum(SubSeq(xs, n2 + 1, n)))
          : xs \in {x}})

\* np.std(valores, ddof=1): the root of the sum of the squared distances from
\* the mean over n - 1
np_std(x) ==
    Only({Only({FSqrt(FDivInt(np_sum([i \in 1..Len(xs) |->
                                         Only({FMul(d, d) : d \in {FSub(xs[i], arrmean)}})]),
                              Len(xs) - 1))
                : arrmean \in {FDivInt(np_sum(xs), Len(xs))}})
          : xs \in {x}})

\* promedio, desviacion, ref_alto and ref_bajo as the doubles of lines
\* 272-276, for more than one value
float_references(vals, build) ==
    Only({Only({[promedio |-> promedio, desviacion |-> desviacion,
                 ref_alto |-> FAdd(promedio, FMul(FInt(2), desviacion)),
                 ref_bajo |-> FSub(promedio, FMul(FInt(2), desviacion)),
                 valores |-> xs]
                : promedio \in {FDivInt(py_sum(xs, build), Len(xs))},
                  desviacion \in {np_std(xs)}})
          : xs \in {[i \in 1..Len(vals) |-> FNum(vals[i])]}})

----------------------------------------------------------------------------
(* generate_text_groundwater *)

\* The references are promedio +- 2 * desviacion with the sample standard
\* deviation (ddof = 1), taken as 0 for a single record.  With S the sum of
\* the n values, d(x) = n * x - S and Q the sum of the d(x)^2, a value v lies
\* above the high reference exactly when d(v) > 0 and d(v)^2 * (n - 1) > 4 * Q,
\* so the comparisons need no square root.  The d(x) are taken in units of
\* their greatest common divisor, which changes neither comparison.
\*
\* The source compares doubles.  Where no value lies exactly on a reference
\* the rounding errors of the doubles are far below the distance to it and
\* the exact comparison is the one of the source.  Where a value lies exactly
\* on a reference (all values equal, for one) the comparison is the one of the
\* doubles, which depends on how the interpreter adds: sum() is one addition
\* after the other up to CPython 3.11 and compensated from 3.12 on, while
\* np.std adds pairwise.  For one record promedio = x / 1 and desviacion = 0
\* are exact.

RECURSIVE Gcd(_, _)
Gcd(a, b) == IF b = 0 THEN a ELSE Gcd(b, a % b)

RECURSIVE GcdSeq(_)
GcdSeq(s) == IF s = <<>> THEN 0
             ELSE IF Len(s) = 1 THEN Abs(s[1])
             ELSE Gcd(GcdSeq(Front(s)), GcdSeq(Back(s)))

SumSquares(s) == SumSeq([i \in 1..Len(s) |-> s[i] * s[i]])

\* the deviations n * x - sum(valores) of the values, in units of their
\* greatest common divisor, and the sum q of their squares
deviations(vals) ==
    LET n == Len(vals)
        total == SumSeq(vals)
        dev == [i \in 1..n |-> n * vals[i] - total]
        g == GcdSeq(dev)
        unit == IF g = 0 THEN 1 ELSE g
        d == [i \in 1..n |-> dev[i] \div unit]
    IN  [n |-> n, total |-> total, unit |-> unit, d |-> d, q |-> SumSquares(d)]

\* promedio + 2 * desviacion (lado "alto") or promedio - 2 * desviacion (lado
\* "bajo") as the exact quantities it is made of: the mean is total / n and
\* the variance is q * unit^2 / (n * n * ddof); sd is "nan" where the
\* standard deviation is not a number
reference(vals, lado, sd) ==
    LET dv == deviations(vals)
    IN  [k |-> "ref", v |-> 0, lado |-> lado, sd |-> sd,
         total |-> dv.total, n |-> dv.n, unit |-> dv.unit, q |-> dv.q,
         ddof |-> IF dv.n > 1 THEN dv.n - 1 ELSE 1]

\* whether a value of deviation d is further than 2 * desviacion from the mean
beyond_2sd(d, dv) ==
    IF dv.n > 1 THEN d * d * (dv.n - 1) > 4 * dv.q ELSE d # 0

\* whether some value lies exactly on one of the two references
on_reference(vals) ==
    LET dv == deviations(vals)
    IN  /\ dv.n > 1
        /\ \E i \in 1..dv.n : dv.d[i] * dv.d[i] * (dv.n - 1) = 4 * dv.q

\* n_exc counted with v >= ref_alto
n_exc_inclusive(vals, build) ==
    LET dv == deviations(vals)
    IN  Cardinality({i \in 1..dv.n :
            dv.d[i] >= 0 /\ dv.d[i] * dv.d[i] * (dv.n - 1) >= 4 * dv.q})

\* n_exc: sum(1 for v in valores_numericos if v > ref_alto)
n_exc(vals, build) ==
    LET dv == deviations(vals)
    IN  IF on_reference(vals)
        THEN Only({Cardinality({i \in 1..dv.n : FLess(f.ref_alto, f.valores[i])})
                   : f \in {float_references(vals, build)}})
        ELSE Cardinality({i \in 1..dv.n : dv.d[i] > 0 /\ beyond_2sd(dv.d[i], dv)})

\* n_deb: sum(1 for v in valores_numericos if v < ref_bajo)
n_deb(vals, build) ==
    LET dv == deviations(vals)
    IN  IF on_reference(vals)
        THEN Only({Cardinality({i \in 1..dv.n : FLess(f.valores[i], f.ref_bajo)})
                   : f \in {float_references(vals, build)}})
        ELSE Cardinality({i \in 1..dv.n : dv.d[i] < 0 /\ beyond_2sd(dv.d[i], dv)})

\* calculate_reference_statistics: pandas' std(ddof=1) of one record is NaN
calculate_reference_statistics(rows, method) ==
    LET vals == MapRows(LAMBDA r : r.valor, rows)
    IN  IF rows = <<>> THEN None
        ELSE reference(vals, IF method = "mean_minus_2std" THEN "bajo" ELSE "alto",
                       IF Len(rows) > 1 THEN "num" ELSE "nan")

lim_referencia_gw == <<"lim", "referencia", "gw">>

\* df_final['lim_referencia_gw'] filled per parameter with its reference
with_reference(df) ==
    [columns |-> df.columns \cup {lim_referencia_gw},
     header |-> with_column(df.header, lim_referencia_gw),
     rows |-> MapRows(
         LAMBDA r : [r EXCEPT !.lim =
             (lim_referencia_gw :> calculate_reference_statistics(
                  SelectSeq(df.rows, LAMBDA o : o.parametro = r.parametro),
                  "mean_plus_2std")) @@ @],
         df.rows)]

\* res_alto / res_bajo: the result of one side
gw_result(n, n_muestras) ==
    IF n = 0 THEN [kind |-> "ninguno", n |-> "", pct |-> ""]
    ELSE IF n = n_muestras THEN [kind |-> "totalidad", n |-> "", pct |-> ""]
    ELSE [kind |-> "parcial", n |-> ToString(n),
          pct |-> format_percent(Num(py_round(100 * n, n_muestras, 2)))]

NoResult == [kind |-> "", n |-> "", pct |-> ""]

generate_text_groundwater(grupo, calc_ref_alto, calc_ref_bajo, build) ==
    LET base == get_base_statistics_text(grupo)
        vals == base.valores_numericos
        n_muestras == Len(vals)
        partes_intro == (IF calc_ref_alto THEN <<"alto">> ELSE <<>>)
                        \o (IF calc_ref_bajo THEN <<"bajo">> ELSE <<>>)
        res_alto == IF calc_ref_alto THEN gw_result(n_exc(vals, build), n_muestras) ELSE NoResult
        res_bajo == IF calc_ref_bajo THEN gw_result(n_deb(vals, build), n_muestras) ELSE NoResult
    IN  [module |-> "groundwater",
         texto_list |-> <<base.texto>>
             \o (IF calc_ref_alto \/ calc_ref_bajo
                 THEN <<[tpl |-> "gw_intro", kind |-> "intro", keys |-> <<>>,
                         partes_intro |-> partes_intro, sep |-> " y ",
                         refs |-> MapRows(LAMBDA lado : reference(vals, lado, "num"),
                                          partes_intro),
                         unidad |-> grupo.rows[1].unidad, ev |-> <<>>],
                        [tpl |-> "gw_comparacion", kind |-> "comparacion", keys |-> <<>>,
                         lados |-> partes_intro,
                         sep |-> IF calc_ref_alto /\ calc_ref_bajo
                                 THEN "; mientras que " ELSE "",
                         res_alto |-> res_alto, res_bajo |-> res_bajo, ev |-> <<>>]>>
                 ELSE <<>>),
         valores_numericos |-> vals,
         es_LD_list |-> base.es_LD_list,
         active |-> <<>>,
         flags |-> <<calc_ref_alto, calc_ref_bajo>>,
         build |-> build]

----------------------------------------------------------------------------
(* generate_text_effluents *)

\* 'nmp_minero' in ','.join(selected_regs), and likewise for the other two
first_selected_has(selected, pat) ==
    selected # <<>> /\ has_tokens(selected[1], pat)

selected_has(selected, pat) ==
    \E i \in 1..Len(selected) : has_tokens(selected[i], pat)

\* check_inc
check_inc(i, s, vals) ==
    IF isna(i) /\ isna(s) THEN None ELSE Num(count_inc(vals, i, s))

\* the clause of one effluent standard, given whether text precedes it
effluent_clause(grupo, vals, std, has_prior_text) ==
    LET n_total == Len(vals)
        i == grupo_get(grupo, <<"lim", "inf">> \o std)
        s == grupo_get(grupo, <<"lim", "sup">> \o std)
        n_inc == check_inc(i, s, vals)
        first == std = <<"nmp", "minero">>
        kind == IF n_inc.k = "none" THEN "no_existe"
                ELSE IF n_inc = Num(0) THEN "cumplen"
                ELSE IF n_inc = Num(n_total) THEN "no_cumplen"
                ELSE "parcial"
        connector == IF ~first /\ has_prior_text THEN " Por otro lado, " ELSE " "
        word == IF first
                THEN (IF kind = "no_existe" THEN "Cabe mencionar que no" ELSE "Al")
                ELSE IF kind = "no_existe"
                     THEN (IF has_prior_text THEN "no" ELSE "No")
                     ELSE (IF has_prior_text THEN "al" ELSE "Al")
    IN  [tpl |-> "effluent", kind |-> kind, keys |-> <<std>>,
         connector |-> connector, word |-> word,
         lim |-> format_limits(i, s), unidad |-> grupo.rows[1].unidad,
         n |-> IF kind = "parcial" THEN py_str(n_inc) ELSE "",
         pct |-> IF kind = "parcial"
                 THEN format_percent(porcentaje(n_inc, n_total, 2)) ELSE "",
         ev |-> <<evaluation(std, i, s, n_inc, n_total)>>]

\* the flag tracking only the block just before, not every earlier block
has_prior_text_last(blocks) == blocks # <<>> /\ blocks[Len(blocks)]

\* has_prior_text when a block starts: whether one of the blocks before it ran
has_prior_text(blocks) == \E b \in 1..Len(blocks) : blocks[b]

generate_text_effluents(grupo, selected) ==
    LET base == get_base_statistics_text(grupo)
        vals == base.valores_numericos
        map_nmp == selected_has(selected, <<"nmp", "minero">>)
        map_lmp_min == selected_has(selected, <<"lmp", "2010", "minero">>)
        map_lmp_dom == selected_has(selected, <<"lmp", "2010", "domestico">>)
    IN  [module |-> "effluents",
         texto_list |-> <<base.texto>>
             \o (IF map_nmp
                 THEN <<effluent_clause(grupo, vals, <<"nmp", "minero">>,
                                        has_prior_text(<<>>))>>
                 ELSE <<>>)
             \o (IF map_lmp_min
                 THEN <<effluent_clause(grupo, vals, <<"lmp", "2010", "minero">>,
                                        has_prior_text(<<map_nmp>>))>>
                 ELSE <<>>)
             \o (IF map_lmp_dom
                 THEN <<effluent_clause(grupo, vals, <<"lmp", "2010", "domestico">>,
                                        has_prior_text(<<map_nmp, map_lmp_min>>))>>
                 ELSE <<>>),
         valores_numericos |-> vals,
         es_LD_list |-> base.es_LD_list,
         active |-> (IF map_nmp THEN <<(<<"nmp", "minero">>)>> ELSE <<>>)
                    \o (IF map_lmp_min THEN <<(<<"lmp", "2010", "minero">>)>> ELSE <<>>)
                    \o (IF map_lmp_dom THEN <<(<<"lmp", "2010", "domestico">>)>> ELSE <<>>)]

----------------------------------------------------------------------------
(* generate_text_sediments *)

\* sum(1 for v in valores_numericos if v > limit_val)
count_above(vals, limit_val) ==
    Cardinality({i \in 1..Len(vals) : above(vals[i], limit_val)})

\* comparar: no text for a missing threshold, else the comparison clause
comparar(grupo, vals, limit_val, limit_name, suffix) ==
    LET n == count_above(vals, limit_val)
        kind == IF isna(limit_val) THEN "none"
                ELSE IF n = 0 THEN "cumplen"
                ELSE IF n = Len(vals) THEN "exceden"
                ELSE "parcial"
    IN  [tpl |-> "sediment", kind |-> kind, keys |-> <<(<<limit_name, suffix>>)>>,
         lim |-> IF isna(limit_val) THEN "" ELSE str_comma(limit_val.v),
         unidad |-> grupo.rows[1].unidad,
         n |-> IF kind = "parcial" THEN ToString(n) ELSE "",
         pct |-> IF kind = "parcial"
                 THEN format_percent(Num(py_round(100 * n, Len(vals), 2))) ELSE "",
         ev |-> <<evaluation(<<limit_name, suffix>>, None, limit_val,
                             IF isna(limit_val) THEN None ELSE Num(n), Len(vals))>>]

\* any('freshwater' in c for c in selected_regs), and likewise for 'marine'
is_fresh(selected) == \E i \in 1..Len(selected) : Contains(selected[i], "freshwater")
is_marine(selected) == \E i \in 1..Len(selected) : Contains(selected[i], "marine")

\* the environment with a marine column taking precedence
suffix_marine_first(selected) == IF is_marine(selected) THEN "marine" ELSE "freshwater"

\* suffix = "freshwater" if is_fresh else "marine"
suffix_of(selected) == IF is_fresh(selected) THEN "freshwater" ELSE "marine"

generate_text_sediments(grupo, selected) ==
    LET base == get_base_statistics_text(grupo)
        vals == base.valores_numericos
        suffix == suffix_of(selected)
        val_isqg == grupo_get(grupo, <<"ISQG", suffix>>)
        val_pel == grupo_get(grupo, <<"PEL", suffix>>)
        txt_isqg == comparar(grupo, vals, val_isqg, "ISQG", suffix)
        txt_pel == comparar(grupo, vals, val_pel, "PEL", suffix)
        no_existe(name, txt) ==
            [tpl |-> "sediment", kind |-> "no_existe", keys |-> <<(<<name, suffix>>)>>,
             tipo |-> suffix, ev |-> txt.ev]
    IN  [module |-> "sediments",
         texto_list |-> <<base.texto>>
             \o (IF txt_isqg.kind = "none" /\ txt_pel.kind = "none"
                 THEN <<[tpl |-> "sediment", kind |-> "no_existe",
                         keys |-> <<(<<"ISQG", suffix>>), (<<"PEL", suffix>>)>>,
                         tipo |-> suffix, ev |-> txt_isqg.ev \o txt_pel.ev]>>
                 ELSE <<IF txt_isqg.kind # "none" THEN txt_isqg
                        ELSE no_existe("ISQG", txt_isqg),
                        IF txt_pel.kind # "none" THEN txt_pel
                        ELSE no_existe("PEL", txt_pel)>>),
         valores_numericos |-> vals,
         es_LD_list |-> base.es_LD_list,
         active |-> <<(<<"ISQG", suffix>>), (<<"PEL", suffix>>)>>]

----------------------------------------------------------------------------
(* The workbooks and selections the model is run on *)

SeqsUpTo(S, n) == UNION {[1..m -> S] : m \in 0..n}
SeqsFrom(S, lo, hi) == UNION {[1..m -> S] : m \in lo..hi}

Pages == {"surface", "groundwater", "effluents", "sediments"}

BaseColumns == {<<"parametro">>, <<"unidad">>, <<"estacion">>, <<"fecha">>, <<"valor">>}
LDColumns == {<<"es", "LD">>, <<"valor", "raw">>}

DigitChar(d) ==
    CASE d = 0 -> "0" [] d = 1 -> "1" [] d = 2 -> "2" [] d = 3 -> "3" [] d = 4 -> "4"
      [] d = 5 -> "5" [] d = 6 -> "6" [] d = 7 -> "7" [] d = 8 -> "8" [] d = 9 -> "9"

RECURSIVE IntChars(_)
IntChars(n) == IF n < 10 THEN <<DigitChar(n)>>
               ELSE IntChars(n \div 10) \o <<DigitChar(n % 10)>>

\* the text a sheet that keeps the raw value shows for a cell
CellText(cell) ==
    CASE cell.t = "str" -> cell.s
      [] cell.t = "num" -> IntChars(cell.n \div Scale)
      [] OTHER -> <<>>

\* sheet 'datos' with one row per cell; ld: the sheet also carries the columns
\* 'es_LD' and 'valor_raw', filled from the raw value
DatosFrame(cells, params, ld) ==
    [columns |-> BaseColumns \cup (IF ld THEN LDColumns ELSE {}),
     header |-> <<(<<"estacion">>), (<<"fecha">>), (<<"parametro">>), (<<"unidad">>),
                  (<<"valor">>)>>
                \o (IF ld THEN <<(<<"es", "LD">>), (<<"valor", "raw">>)>> ELSE <<>>),
     rows |-> [i \in 1..Len(cells) |->
                 [index |-> i - 1, estacion |-> "E" \o ToString(i),
                  parametro |-> params[i], unidad |-> "mg/L", valor |-> cells[i],
                  es_LD |-> ld /\ mask_less(cells[i]),
                  valor_raw |-> IF ld THEN CellText(cells[i]) ELSE <<>>]]]

AllPlomo(cells) == [i \in 1..Len(cells) |-> "Plomo"]

EcaRow(param, lim) == [parametro |-> param, unidad |-> "mg/L", lim |-> lim]

Inf(key) == <<"lim", "inf">> \o key
Sup(key) == <<"lim", "sup">> \o key

k_1a1 == <<"eca", "2017", "1a1">>
\* a category of ECA 2008 that reg_meta has no entry for
k_2008 == <<"eca", "2008", "1a2">>
k_nmp == <<"nmp", "minero">>
k_lmp_min == <<"lmp", "2010", "minero">>
k_lmp_dom == <<"lmp", "2010", "domestico">>

\* the threshold columns in the order the regulation sheets list them
SheetOrder ==
    <<Inf(k_1a1), Sup(k_1a1), Inf(k1), Sup(k1), Inf(k2), Sup(k2),
      Inf(k_2008), Sup(k_2008), Inf(k_nmp), Sup(k_nmp), Inf(k_lmp_min), Sup(k_lmp_min),
      Inf(k_lmp_dom), Sup(k_lmp_dom),
      (<<"ISQG", "freshwater">>), (<<"PEL", "freshwater">>),
      (<<"ISQG", "marine">>), (<<"PEL", "marine">>)>>

\* a regulation sheet: its rows are [parametro, unidad, lim]
EcaFrame(rows) ==
    [columns |-> {<<"parametro">>, <<"unidad">>}
                 \cup UNION {DOMAIN rows[i].lim : i \in 1..Len(rows)},
     header |-> <<(<<"parametro">>), (<<"unidad">>)>>
                \o SelectSeq(SheetOrder, LAMBDA c :
                       \E i \in 1..Len(rows) : c \in DOMAIN rows[i].lim),
     rows |-> rows]

\* a readable workbook with the sheet 'datos' and one regulation sheet
Workbook(datos, name, eca) ==
    [readable |-> TRUE, sheets |-> ("datos" :> datos @@ name :> eca)]

\* the cells of the 'valor' column
RawCells ==
    {NumCell(5 * Scale), NumCell(15 * Scale), StrCell(<<"<", "1">>), StrCell(<<"<", "2">>),
     StrCell(<<"<", "2", ".", "5">>), StrCell(<<"a">>), BlankCell,
     StrCell(<<"7", ".", "5">>), StrCell(<<"<", "0", ",", "5">>)}

\* thresholds 0 to 10 for every standard of the three modules
FullLimits ==
    (Inf(k_1a1) :> Num(0) @@ Sup(k_1a1) :> Num(10 * Scale)
     @@ Inf(k1) :> Num(0) @@ Sup(k1) :> Num(10 * Scale)
     @@ Inf(k2) :> Num(0) @@ Sup(k2) :> Num(10 * Scale)
     @@ Inf(k_2008) :> Num(0) @@ Sup(k_2008) :> Num(10 * Scale)
     @@ Inf(k_nmp) :> Num(0) @@ Sup(k_nmp) :> Num(10 * Scale)
     @@ Inf(k_lmp_min) :> Num(0) @@ Sup(k_lmp_min) :> Num(10 * Scale)
     @@ Inf(k_lmp_dom) :> Num(0) @@ Sup(k_lmp_dom) :> Num(10 * Scale)
     @@ <<"ISQG", "freshwater">> :> Num(10 * Scale)
     @@ <<"PEL", "freshwater">> :> Num(10 * Scale)
     @@ <<"ISQG", "marine">> :> Num(10 * Scale)
     @@ <<"PEL", "marine">> :> Num(10 * Scale))

\* the selection that names every column of the module's standards
FullSelection(p) ==
    CASE p = "surface" -> <<Inf(k_1a1), Sup(k_1a1), Inf(k1), Sup(k1), Inf(k2), Sup(k2),
                            Inf(k_2008), Sup(k_2008)>>
      [] p = "effluents" -> <<Sup(k_nmp), Sup(k_lmp_min), Sup(k_lmp_dom)>>
      [] p = "groundwater" -> <<lim_referencia_gw>>
      [] OTHER -> <<(<<"ISQG", "freshwater">>), (<<"PEL", "freshwater">>)>>

EmptyFrame == [columns |-> {}, header |-> <<>>, rows |-> <<>>]

\* a file has been uploaded and nothing has run yet
Start ==
    /\ pc = "uploaded"
    /\ df_datos = EmptyFrame
    /\ df_eca = EmptyFrame
    /\ df_clean = EmptyFrame
    /\ df_final = EmptyFrame
    /\ reg_groups = <<>>
    /\ grupo_left = EmptyFrame
    /\ informe = NoInforme
    /\ runs = <<>>
    /\ st_error = <<>>
    /\ exception = ""

\* any mix of cells, with or without the detection-limit columns
Init ==
    /\ page \in Pages
    /\ \E cells \in SeqsFrom(RawCells, 1, MaxRows), ld \in BOOLEAN :
           xls = Workbook(DatosFrame(cells, AllPlomo(cells), ld), "eca",
                          EcaFrame(<<EcaRow("Plomo", FullLimits)>>))
    /\ selected_param = "Plomo"
    /\ selected_regulations = FullSelection(page)
    /\ Start

\* measurements of two parameters against regulation sheets of up to MaxTable
\* rows, a parameter possibly missing from the sheet or listed twice
JoinCells == {NumCell(5 * Scale), StrCell(<<"<", "2">>), StrCell(<<"a">>)}
Params == {"Plomo", "pH"}

HalfLimits == (Inf(k_1a1) :> NaN @@ Sup(k_1a1) :> Num(10 * Scale))
OtherLimits == (Inf(k_1a1) :> Num(2 * Scale) @@ Sup(k_1a1) :> NaN)

JoinEcaRows == {EcaRow("Plomo", HalfLimits), EcaRow("Plomo", OtherLimits),
                EcaRow("pH", HalfLimits)}

InitJoin ==
    /\ page \in Pages
    /\ \E cells \in SeqsFrom(JoinCells, 1, MaxValues) :
       \E params \in [1..Len(cells) -> Params] :
       \E rows \in SeqsUpTo(JoinEcaRows, MaxTable) :
           xls = Workbook(DatosFrame(cells, params, FALSE), "eca", EcaFrame(rows))
    /\ selected_param \in Params
    /\ selected_regulations = FullSelection(page)
    /\ Start

\* numeric measurements against every combination of present, missing and
\* absent thresholds, under every selection of up to MaxSel columns
RegCells == {NumCell(2 * Scale), NumCell(10 * Scale), NumCell(15 * Scale)}

Lows == {NaN, Num(5 * Scale)}
Highs == {NaN, Num(10 * Scale)}

\* the thresholds of one standard: lower and upper, each a number or missing
Bounds(key) == {Inf(key) :> lo @@ Sup(key) :> hi : lo \in Lows, hi \in Highs}

\* the same, or the standard's columns absent from the sheet
BoundsOrAbsent(key) ==
    {Inf(key) :> NaN @@ Sup(key) :> NaN,
     Inf(key) :> Num(5 * Scale) @@ Sup(key) :> Num(10 * Scale),
     <<>>}

Level(col) == {col :> v : v \in Highs}

RegLimits(p) ==
    CASE p = "surface" ->
           {a @@ b @@ c : a \in Bounds(k1), b \in Bounds(k2) \cup {<<>>},
                          c \in BoundsOrAbsent(k_1a1)}
      [] p = "effluents" ->
           {a @@ b @@ c : a \in Bounds(k_nmp), b \in Level(Sup(k_lmp_min)),
                          c \in BoundsOrAbsent(k_lmp_dom)}
      [] p = "groundwater" -> Bounds(k_1a1)
      [] OTHER ->
           {a @@ b @@ c : a \in Level(<<"ISQG", "freshwater">>),
                          b \in Level(<<"PEL", "freshwater">>) \cup {<<>>},
                          c \in Level(<<"ISQG", "marine">>)}

RegColumns(p) ==
    CASE p = "surface" -> {Inf(k1), Sup(k1), Sup(k2), Sup(k_1a1)}
      [] p = "effluents" -> {Sup(k_nmp), Sup(k_lmp_min), Sup(k_lmp_dom)}
      [] p = "groundwater" -> {lim_referencia_gw}
      [] OTHER -> {<<"ISQG", "freshwater">>, <<"PEL", "freshwater">>, <<"ISQG", "marine">>}

\* the multiselect hands over distinct columns, in the order chosen
Selections(cols, n) ==
    {sel \in SeqsUpTo(cols, n) : \A i, j \in 1..Len(sel) : sel[i] = sel[j] => i = j}

InitReg ==
    /\ page \in Pages
    /\ \E cells \in SeqsFrom(RegCells, 1, MaxValues) :
       \E lim \in RegLimits(page) :
           xls = Workbook(DatosFrame(cells, AllPlomo(cells), FALSE), "eca",
                          EcaFrame(<<EcaRow("Plomo", lim)>>))
    /\ selected_param = "Plomo"
    /\ selected_regulations \in Selections(RegColumns(page), MaxSel)
    /\ Start

\* n_total records of which n_inc exceed the upper threshold of 10
Repeat(x, n) == [i \in 1..n |-> x]

InitPct ==
    /\ page \in Pages
    /\ \E n_total \in 1..MaxRecords : \E n_inc \in 0..n_total :
           xls = Workbook(DatosFrame(Repeat(NumCell(15 * Scale), n_inc)
                                       \o Repeat(NumCell(5 * Scale), n_total - n_inc),
                                     Repeat("Plomo", n_total), FALSE),
                          "eca", EcaFrame(<<EcaRow("Plomo", FullLimits)>>))
    /\ selected_param = "Plomo"
    /\ selected_regulations = FullSelection(page)
    /\ Start

\* large record sets: about MaxLarge records of which a few, or all but a few,
\* exceed the upper threshold of 10
LargeTotals == {MaxLarge - 50, MaxLarge - 1, MaxLarge}

InitLarge ==
    /\ page \in Pages
    /\ \E n_total \in LargeTotals : \E n_inc \in {1, 2, n_total - 2, n_total - 1} :
           xls = Workbook(DatosFrame(Repeat(NumCell(15 * Scale), n_inc)
                                       \o Repeat(NumCell(5 * Scale), n_total - n_inc),
                                     Repeat("Plomo", n_total), FALSE),
                          "eca", EcaFrame(<<EcaRow("Plomo", FullLimits)>>))
    /\ selected_param = "Plomo"
    /\ selected_regulations = FullSelection(page)
    /\ Start

\* record sets of up to MaxEqual equal values, 0.1 or 0.7, which are no doubles
EqualValues == {100, 700}

InitFloat ==
    /\ page \in Pages
    /\ \E n \in 1..MaxEqual : \E v \in EqualValues :
           xls = Workbook(DatosFrame(Repeat(NumCell(v), n), Repeat("Plomo", n), FALSE),
                          "eca", EcaFrame(<<EcaRow("Plomo", FullLimits)>>))
    /\ selected_param = "Plomo"
    /\ selected_regulations = FullSelection(page)
    /\ Start

\* workbooks with any of the sheets 'datos', 'eca', 'lmp' and 'normativa', each
\* regulation sheet with thresholds of its own, and files that cannot be read
SheetNames == {"datos", "eca", "lmp", "normativa"}

RegulationSheet(name) ==
    CASE name = "eca" -> EcaFrame(<<EcaRow("Plomo", FullLimits)>>)
      [] name = "lmp" -> EcaFrame(<<EcaRow("Plomo", HalfLimits)>>)
      [] OTHER -> EcaFrame(<<EcaRow("Plomo", OtherLimits)>>)

InitLoad ==
    /\ page \in Pages
    /\ \E cells \in SeqsFrom(JoinCells, 1, MaxValues) :
       \E names \in SUBSET SheetNames, readable \in BOOLEAN :
           xls = [readable |-> readable,
                  sheets |-> [n \in names |->
                                 IF n = "datos"
                                 THEN DatosFrame(cells, AllPlomo(cells), FALSE)
                                 ELSE RegulationSheet(n)]]
    /\ selected_param = "Plomo"
    /\ selected_regulations = FullSelection(page)
    /\ Start

\* regulation sheets whose threshold columns are any distinct columns of a
\* pool, in any order: lower and upper bounds of several standards, sediment
\* thresholds, and 'ISGQ_freshwater' as get_regulation_columns spells it
GroupPool ==
    {Inf(k1), Sup(k1), Sup(k2), Sup(k_1a1), Sup(k_lmp_dom),
     <<"PEL", "freshwater">>, <<"PEL", "marine">>, <<"ISGQ", "freshwater">>,
     <<"ISQG", "freshwater">>}

\* a regulation sheet with the given threshold columns, in the given order
EcaSheet(cols) ==
    [columns |-> {<<"parametro">>, <<"unidad">>} \cup {cols[i] : i \in 1..Len(cols)},
     header |-> <<(<<"parametro">>), (<<"unidad">>)>> \o cols,
     rows |-> <<EcaRow("Plomo", [c \in {cols[i] : i \in 1..Len(cols)} |->
                                   Num(10 * Scale)])>>]

InitGroups ==
    /\ page \in Pages
    /\ \E cols \in Selections(GroupPool, MaxSel) :
           xls = Workbook(DatosFrame(<<NumCell(5 * Scale)>>, <<"Plomo">>, FALSE),
                          "eca", EcaSheet(cols))
    /\ selected_param = "Plomo"
    /\ selected_regulations = FullSelection(page)
    /\ Start

----------------------------------------------------------------------------
(* The pipeline *)

\* df_final[df_final['parametro'] == selected_param]
grupo_of(df, param) ==
    [columns |-> df.columns, header |-> df.header,
     rows |-> SelectSeq(df.rows, LAMBDA r : r.parametro = param)]

\* (df_raw, df_eca), error = load_data(uploaded_file): unpacking the None that
\* load_data returns with a message raises TypeError before error is looked at
LoadData ==
    /\ pc = "uploaded"
    /\ LET r == load_data(xls) IN
       IF r.data = NoData
       THEN /\ exception' = "TypeError"
            /\ pc' = "crashed"
            /\ UNCHANGED <<df_datos, df_eca, st_error>>
       ELSE IF r.error # NoError
       THEN /\ st_error' = Append(st_error, r.error)
            /\ pc' = "stopped"
            /\ UNCHANGED <<df_datos, df_eca, exception>>
       ELSE /\ df_datos' = r.data[1]
            /\ df_eca' = r.data[2]
            /\ pc' = "loaded"
            /\ UNCHANGED <<st_error, exception>>
    /\ UNCHANGED <<inputs, df_clean, df_final, reg_groups, grupo_left, informe, runs>>

CleanData ==
    /\ pc = "loaded"
    /\ df_clean' = clean_data(df_datos)
    /\ pc' = "cleaned"
    /\ UNCHANGED <<inputs, df_datos, df_eca, df_final, reg_groups, grupo_left, informe,
                   runs, st_error, exception>>

\* the merge, the reference column of the groundwater module and the groups
\* of regulation columns of the other modules
MergeData ==
    /\ pc = "cleaned"
    /\ df_final' = IF page = "groundwater"
                   THEN with_reference(merge_data(df_clean, df_eca))
                   ELSE merge_data(df_clean, df_eca)
    /\ reg_groups' = IF page = "groundwater" THEN <<>>
                     ELSE get_regulation_groups(df_final')
    /\ pc' = "merged"
    /\ UNCHANGED <<inputs, df_datos, df_eca, df_clean, grupo_left, informe, runs,
                   st_error, exception>>

\* the record set a generator is called with: the records of the selected
\* parameter, or the record set of the call before when it is called again
records == IF pc = "merged" THEN grupo_of(df_final, selected_param) ELSE grupo_left

\* a generator is called with the records of the selected parameter
CanGenerate(p) ==
    /\ pc \in {"merged", "done"}
    /\ page = p
    /\ Len(runs) < MaxRuns

\* the call raises and no text is returned, or it returns the text and leaves
\* the record set as grupo_after
Generated(text) ==
    IF raised(records) # ""
    THEN /\ exception' = raised(records)
         /\ pc' = "aborted"
         /\ UNCHANGED <<inputs, df_datos, df_eca, df_clean, df_final, reg_groups,
                        grupo_left, informe, runs, st_error>>
    ELSE /\ informe' = text
         /\ grupo_left' = grupo_after(records)
         /\ runs' = Append(runs, [informe |-> text, reg_groups |-> reg_groups])
         /\ pc' = "done"
         /\ UNCHANGED <<inputs, df_datos, df_eca, df_clean, df_final, reg_groups,
                        st_error, exception>>

GenerateTextSurface ==
    /\ CanGenerate("surface")
    /\ Generated(generate_text_surface(records, selected_regulations))

\* the two flags are the caller's choice and the summation is the one of the
\* interpreter the application runs on, the same in every run
GenerateTextGroundwater ==
    /\ CanGenerate("groundwater")
    /\ \E calc_ref_alto, calc_ref_bajo \in BOOLEAN, build \in SumBuilds :
           /\ IF runs = <<>> THEN TRUE
              ELSE /\ <<calc_ref_alto, calc_ref_bajo>> = informe.flags
                   /\ build = informe.build
           /\ Generated(generate_text_groundwater(records, calc_ref_alto,
                                                  calc_ref_bajo, build))

GenerateTextEffluents ==
    /\ CanGenerate("effluents")
    /\ Generated(generate_text_effluents(records, selected_regulations))

GenerateTextSediments ==
    /\ CanGenerate("sediments")
    /\ Generated(generate_text_sediments(records, selected_regulations))

\* the script runs again from the top on the same file and the same choices
Rerun ==
    /\ pc = "done"
    /\ Len(runs) < MaxRuns
    /\ pc' = "uploaded"
    /\ UNCHANGED <<inputs, df_datos, df_eca, df_clean, df_final, reg_groups, grupo_left,
                   informe, runs, st_error, exception>>

Next ==
    \/ LoadData
    \/ CleanData
    \/ MergeData
    \/ GenerateTextSurface
    \/ GenerateTextGroundwater
    \/ GenerateTextEffluents
    \/ GenerateTextSediments
    \/ Rerun

Spec == Init /\ [][Next]_vars
SpecJoin == InitJoin /\ [][Next]_vars
SpecReg == InitReg /\ [][Next]_vars
SpecPct == InitPct /\ [][Next]_vars
SpecLarge == InitLarge /\ [][Next]_vars
SpecFloat == InitFloat /\ [][Next]_vars
SpecLoad == InitLoad /\ [][Next]_vars
SpecGroups == InitGroups /\ [][Next]_vars

----------------------------------------------------------------------------
(* Properties of the value normalizer and of the joiner *)

Cleaned == pc \in {"cleaned", "merged", "done"}
Merged == pc \in {"merged", "done"}

\* the rows of a frame that carry the given index label
RowsAt(df, idx) == {j \in 1..Len(df.rows) : df.rows[j].index = idx}

\* the number a below-detection-limit cell is written with, NaN when none
LimitOf(cell) == ParseFloat(RemoveLess(cell.s))

IsPositiveLimit(cell) ==
    /\ cell.t = "str"
    /\ Contains(cell.s, "<")
    /\ notna(LimitOf(cell))
    /\ LimitOf(cell).v > 0

\* C1: a cell "<x" with x a positive number is kept by clean_data, once, with
\* the value x / 2
C1_DetectionLimitHalved ==
    Cleaned =>
        \A i \in 1..Len(df_datos.rows) :
            LET r == df_datos.rows[i] IN
            IsPositiveLimit(r.valor) =>
                /\ Cardinality(RowsAt(df_clean, r.index)) = 1
                /\ \A j \in RowsAt(df_clean, r.index) :
                       2 * df_clean.rows[j].valor = LimitOf(r.valor).v

C1_Witness ==
    /\ pc = "cleaned"
    /\ \E i \in 1..Len(df_datos.rows) :
           /\ df_datos.rows[i].valor = StrCell(<<"<", "2", ".", "5">>)
           /\ \E j \in RowsAt(df_clean, df_datos.rows[i].index) :
                  df_clean.rows[j].valor = 1250

\* the rows of 'datos' whose raw value holds a '<'
HadLess(estacion) ==
    \E i \in 1..Len(df_datos.rows) :
        /\ df_datos.rows[i].estacion = estacion
        /\ df_datos.rows[i].valor.t = "str"
        /\ Contains(df_datos.rows[i].valor.s, "<")

\* C2: the detection-limit flag the statistics sentence sees for a record is
\* true exactly when the raw value of that record held a '<'
C2_FlagSeenMatchesRaw ==
    pc = "done" =>
        LET grupo == grupo_of(df_final, selected_param) IN
        \A i \in 1..Len(informe.es_LD_list) :
            informe.es_LD_list[i] <=> HadLess(grupo.rows[i].estacion)

\* whether a cell yields no number: the text without '<' for a cell that holds
\* one, the cell itself otherwise
FailsToParse(cell) ==
    IF cell.t = "str" /\ Contains(cell.s, "<") THEN isna(LimitOf(cell))
    ELSE isna(ToNumeric(cell))

\* C3: a cell without '<' that is a number keeps its value, one that is not is
\* dropped, and the output has the input's rows minus the cells that fail
C3_PlainValuesKeptOrDropped ==
    Cleaned =>
        /\ \A i \in 1..Len(df_datos.rows) :
               LET r == df_datos.rows[i] IN
               ~(r.valor.t = "str" /\ Contains(r.valor.s, "<")) =>
                   IF FailsToParse(r.valor)
                   THEN RowsAt(df_clean, r.index) = {}
                   ELSE /\ Cardinality(RowsAt(df_clean, r.index)) = 1
                        /\ \A j \in RowsAt(df_clean, r.index) :
                               df_clean.rows[j].valor = ToNumeric(r.valor).v
        /\ Len(df_clean.rows) = Len(df_datos.rows)
               - Cardinality({i \in 1..Len(df_datos.rows) :
                                  FailsToParse(df_datos.rows[i].valor)})

C3_Witness ==
    /\ pc = "cleaned"
    /\ Len(df_datos.rows) = 3
    /\ Len(df_clean.rows) = 1
    /\ df_datos.rows[1].valor = StrCell(<<"a">>)
    /\ df_datos.rows[2].valor = StrCell(<<"7", ".", "5">>)
    /\ df_datos.rows[3].valor = BlankCell
    /\ df_clean.rows[1].valor = 7500

\* the regulation sheet lists no (parametro, unidad) twice
UniqueKeys(eca) ==
    \A i, j \in 1..Len(eca.rows) :
        (eca.rows[i].parametro = eca.rows[j].parametro
         /\ eca.rows[i].unidad = eca.rows[j].unidad) => i = j

HasRegulation(r, eca) ==
    \E i \in 1..Len(eca.rows) :
        eca.rows[i].parametro = r.parametro /\ eca.rows[i].unidad = r.unidad

\* C4: with unique keys in the regulation sheet the merged frame has the
\* measurements one for one, in order, and a measurement without a regulation
\* row has every threshold column null (the groundwater page adds its computed
\* lim_referencia_gw after the join; it is not a column of the join)
C4_LeftJoinKeepsRows ==
    (Merged /\ UniqueKeys(df_eca)) =>
        /\ Len(df_final.rows) = Len(df_clean.rows)
        /\ \A i \in 1..Len(df_final.rows) :
               /\ df_final.rows[i].estacion = df_clean.rows[i].estacion
               /\ df_final.rows[i].valor = df_clean.rows[i].valor
               /\ ~HasRegulation(df_clean.rows[i], df_eca) =>
                      /\ DOMAIN df_final.rows[i].lim \ {lim_referencia_gw}
                             = eca_value_columns(df_eca)
                      /\ \A c \in eca_value_columns(df_eca) :
                             df_final.rows[i].lim[c] = NaN

C4_Witness ==
    /\ pc = "merged"
    /\ UniqueKeys(df_eca)
    /\ Len(df_eca.rows) = 1
    /\ Len(df_final.rows) = 2
    /\ HasRegulation(df_clean.rows[1], df_eca)
    /\ ~HasRegulation(df_clean.rows[2], df_eca)
    /\ df_final.rows[2].lim[Sup(k_1a1)] = NaN

----------------------------------------------------------------------------
(* Properties of the compliance evaluation and of the narrative *)

Done(p) == pc = "done" /\ page = p

\* the clauses after the statistics sentence
Clauses == Tail(informe.texto_list)

\* what clause c states about the standard of its idx-th evaluation
Statement(c, idx) ==
    IF c.tpl = "combo_3d" /\ c.kind = "mixto"
    THEN (IF idx = 1 THEN c.p1.kind ELSE c.p2.kind)
    ELSE c.kind

\* the percentage text clause c shows for its idx-th evaluation
PctShown(c, idx) ==
    IF c.tpl = "combo_3d" THEN (IF idx = 1 THEN c.p1.pct ELSE c.p2.pct) ELSE c.pct

Violates(v, lower, upper) ==
    \/ (lower.k = "num" /\ v < lower.v)
    \/ (upper.k = "num" /\ v > upper.v)

ViolationCount(vals, lower, upper) ==
    Cardinality({i \in 1..Len(vals) : Violates(vals[i], lower, upper)})

\* C5: in the surface and effluents modules an evaluation is not applicable
\* exactly when both bounds are null, and is otherwise the number of values
\* strictly outside the bounds, a null bound constraining nothing
C5_ViolationCount ==
    (pc = "done" /\ page \in {"surface", "effluents"}) =>
        \A ci \in 1..Len(Clauses) : \A idx \in 1..Len(Clauses[ci].ev) :
            LET e == Clauses[ci].ev[idx] IN
            /\ (e.inc = None) <=> (isna(e.inf) /\ isna(e.sup))
            /\ e.inc # None =>
                   e.inc = Num(ViolationCount(informe.valores_numericos, e.inf, e.sup))

C5_Witness ==
    /\ pc = "done"
    /\ page \in {"surface", "effluents"}
    /\ informe.valores_numericos = <<10 * Scale, 15 * Scale>>
    /\ \E ci \in 1..Len(Clauses) : \E idx \in 1..Len(Clauses[ci].ev) :
           LET e == Clauses[ci].ev[idx] IN
           /\ e.inf = NaN
           /\ e.sup = Num(10 * Scale)
           /\ e.inc = Num(1)

\* C6: a standard whose bounds are both null is stated as not existing, never
\* with a count, a percentage or a compliance statement
C6_NotApplicableStated ==
    pc = "done" =>
        \A ci \in 1..Len(Clauses) : \A idx \in 1..Len(Clauses[ci].ev) :
            LET e == Clauses[ci].ev[idx] IN
            (isna(e.inf) /\ isna(e.sup)) => Statement(Clauses[ci], idx) = "no_existe"

Selected(key) ==
    \E i \in 1..Len(selected_regulations) :
        selected_regulations[i] \in {Inf(key), Sup(key), <<"lim">> \o key}

\* the threshold the first record of the parameter carries in a column
Threshold(col) ==
    LET grupo == grupo_of(df_final, selected_param)
    IN  IF col \in DOMAIN grupo.rows[1].lim THEN grupo.rows[1].lim[col] ELSE None

BothNull(key) == isna(Threshold(Inf(key))) /\ isna(Threshold(Sup(key)))

\* the clauses that are about a key
ClausesAbout(key) ==
    {ci \in 1..Len(Clauses) :
        \E i \in 1..Len(Clauses[ci].keys) : Clauses[ci].keys[i] = key}

\* C7: with 3D1 and 3D2 both active and both without bounds, the only text
\* about the two keys is one combined "no existe" sentence
C7_CombinedNotApplicable ==
    (Done("surface") /\ Selected(k1) /\ Selected(k2) /\ BothNull(k1) /\ BothNull(k2)) =>
        /\ Cardinality(ClausesAbout(k1) \cup ClausesAbout(k2)) = 1
        /\ \A ci \in ClausesAbout(k1) \cup ClausesAbout(k2) :
               /\ Clauses[ci].tpl = "combo_3d"
               /\ Clauses[ci].kind = "no_existe"
               /\ Clauses[ci].keys = <<k1, k2>>

C7_Witness ==
    /\ Done("surface")
    /\ Selected(k1) /\ Selected(k2) /\ Selected(k_1a1)
    /\ BothNull(k1) /\ BothNull(k2)
    /\ Len(Clauses) = 2

\* the standard key of a selected threshold column
KeyOf(col) == SubSeq(col, 3, Len(col))

SelectedKeys == {KeyOf(selected_regulations[i]) : i \in 1..Len(selected_regulations)}

CombinedClauses == {ci \in 1..Len(Clauses) : Clauses[ci].tpl = "combo_3d"}

IndividualClauses(key) ==
    {ci \in 1..Len(Clauses) : Clauses[ci].tpl = "surface_key" /\ Clauses[ci].keys = <<key>>}

\* C8: 3D1 and 3D2 both active give one combined clause and no individual
\* clause for either; one of them alone gives its individual clause and no
\* combined clause; the clauses number the distinct active keys, less one when
\* both are active
C8_CombinedReplacesIndividual ==
    Done("surface") =>
        LET both == Selected(k1) /\ Selected(k2) IN
        /\ both => /\ Cardinality(CombinedClauses) = 1
                   /\ IndividualClauses(k1) = {}
                   /\ IndividualClauses(k2) = {}
        /\ ~both => /\ CombinedClauses = {}
                    /\ Selected(k1) => Cardinality(IndividualClauses(k1)) = 1
                    /\ Selected(k2) => Cardinality(IndividualClauses(k2)) = 1
        /\ Len(Clauses) = Cardinality(SelectedKeys) - (IF both THEN 1 ELSE 0)

C8_WitnessSingle ==
    /\ Done("surface")
    /\ selected_regulations = <<Sup(k_1a1), Sup(k1), Inf(k1)>>
    /\ Len(Clauses) = 2
    /\ Cardinality(IndividualClauses(k1)) = 1

C8_Witness ==
    /\ Done("surface")
    /\ selected_regulations = <<Sup(k1), Sup(k_1a1), Sup(k2)>>
    /\ Len(Clauses) = 2
    /\ Cardinality(CombinedClauses) = 1

\* 100 * num / den to nd decimals, a half rounded away from zero, in thousandths
HalfUp(num, den, nd) ==
    ((2 * num * (10 ^ nd) + den) \div (2 * den)) * (Scale \div (10 ^ nd))

Decimals(c) == IF c.tpl = "surface_key" THEN 0 ELSE 2

\* C9: every percentage shown is 100 * violations / total rounded half away
\* from zero at the granularity of its template
C9_PercentRoundsHalfUp ==
    pc = "done" =>
        \A ci \in 1..Len(Clauses) : \A idx \in 1..Len(Clauses[ci].ev) :
            LET c == Clauses[ci]
                e == c.ev[idx]
            IN  Statement(c, idx) = "parcial" =>
                    PctShown(c, idx)
                        = str_comma(HalfUp(100 * e.inc.v, e.n_total, Decimals(c)))

\* the records 5, "<2", 15
IsScenario ==
    /\ Len(df_datos.rows) = 3
    /\ df_datos.rows[1].valor = NumCell(5 * Scale)
    /\ df_datos.rows[2].valor = StrCell(<<"<", "2">>)
    /\ df_datos.rows[3].valor = NumCell(15 * Scale)

\* C10: the records 5, "<2", 15 against the bounds 0 and 10 give the values
\* 5.0, 1.0, 15.0, one violation, and a partial clause showing "33,33" in the
\* two-decimal templates and "33" in the surface per-key template
C10_ScenarioPercentages ==
    (pc = "done" /\ IsScenario) =>
        /\ informe.valores_numericos = <<5 * Scale, 1 * Scale, 15 * Scale>>
        /\ \A ci \in 1..Len(Clauses) : \A idx \in 1..Len(Clauses[ci].ev) :
               LET c == Clauses[ci] IN
               /\ c.ev[idx].inc = Num(1)
               /\ Statement(c, idx) = "parcial"
               /\ PctShown(c, idx) = IF c.tpl = "surface_key" THEN "33" ELSE "33,33"

----------------------------------------------------------------------------
(* Properties of the connective grammar, the sediments module and the       *)
(* statistics sentence                                                      *)

\* C11: in the effluents narrative the first standard clause has no connective
\* and starts capitalized, and every later one starts with " Por otro lado, "
\* followed by a lower-case continuation
C11_ConnectiveIffEarlierClause ==
    Done("effluents") =>
        \A ci \in 1..Len(Clauses) :
            IF ci = 1
            THEN /\ Clauses[ci].connector = " "
                 /\ Clauses[ci].word \in {"Al", "No", "Cabe mencionar que no"}
            ELSE /\ Clauses[ci].connector = " Por otro lado, "
                 /\ Clauses[ci].word \in {"al", "no"}

C11_Witness ==
    /\ Done("effluents")
    /\ Len(Clauses) = 2
    /\ Clauses[1].keys = <<k_nmp>>
    /\ Clauses[1].word = "Cabe mencionar que no"
    /\ Clauses[2].keys = <<k_lmp_dom>>
    /\ Clauses[2].connector = " Por otro lado, "
    /\ Clauses[2].word = "al"

\* the environment a selection names: freshwater as soon as one column does
Environment ==
    IF \E i \in 1..Len(selected_regulations) :
           \E t \in 1..Len(selected_regulations[i]) :
               selected_regulations[i][t] = "freshwater"
    THEN "freshwater" ELSE "marine"

ComparisonKinds == {"cumplen", "exceden", "parcial"}

\* C12: the sediments narrative is about the freshwater thresholds whenever a
\* selected column names freshwater and about the marine ones otherwise; with
\* both thresholds null or absent it has one shared "no existe" clause, else
\* two clauses, ISQG then PEL, each a comparison or its own "no existe"
C12_SedimentClauses ==
    Done("sediments") =>
        LET isqg == <<"ISQG", Environment>>
            pel == <<"PEL", Environment>>
        IN  IF isna(Threshold(isqg)) /\ isna(Threshold(pel))
            THEN /\ Len(Clauses) = 1
                 /\ Clauses[1].kind = "no_existe"
                 /\ Clauses[1].keys = <<isqg, pel>>
                 /\ Clauses[1].tipo = Environment
            ELSE /\ Len(Clauses) = 2
                 /\ Clauses[1].keys = <<isqg>>
                 /\ Clauses[2].keys = <<pel>>
                 /\ \A ci \in 1..2 :
                        IF isna(Threshold(Clauses[ci].keys[1]))
                        THEN /\ Clauses[ci].kind = "no_existe"
                             /\ Clauses[ci].tipo = Environment
                        ELSE Clauses[ci].kind \in ComparisonKinds

C12_Witness ==
    /\ Done("sediments")
    /\ selected_regulations = <<(<<"ISQG", "marine">>), (<<"PEL", "freshwater">>)>>
    /\ Threshold(<<"ISQG", "marine">>) = Num(10 * Scale)
    /\ Len(Clauses) = 2
    /\ Clauses[1].kind = "no_existe"
    /\ Clauses[1].keys = <<(<<"ISQG", "freshwater">>)>>
    /\ Clauses[2].kind = "parcial"

\* every record of the sheet is written "<x" with x a positive number
AllBelowLimit == \A i \in 1..Len(df_datos.rows) : IsPositiveLimit(df_datos.rows[i].valor)

\* the distinct limits x of the records, ascending
DistinctLimits ==
    SortedNumbers({LimitOf(df_datos.rows[i].valor).v : i \in 1..Len(df_datos.rows)})

\* the records "<1", "<1", "<2"
IsLimitScenario ==
    /\ Len(df_datos.rows) = 3
    /\ df_datos.rows[1].valor = StrCell(<<"<", "1">>)
    /\ df_datos.rows[2].valor = StrCell(<<"<", "1">>)
    /\ df_datos.rows[3].valor = StrCell(<<"<", "2">>)

Preamble == informe.texto_list[1]

\* the generator saw every record flagged as below its detection limit
AllFlagged == \A i \in 1..Len(informe.es_LD_list) : informe.es_LD_list[i]

\* C13: when every record is below its detection limit and flagged so, the
\* statistics sentence is the below-detection-limit one and lists the distinct
\* limits x, not x / 2, once each and ascending; for the limits 1.0, 1.0, 2.0
\* it lists "1, 2"
C13_LimitsListed ==
    (pc = "done" /\ AllBelowLimit /\ AllFlagged) =>
        /\ Preamble.form = "todos_LD"
        /\ \/ Preamble.ld_unicos = MapRows(LAMBDA x : format_number(Num(x)), DistinctLimits)
           \/ Preamble.ld_unicos = MapRows(str_comma, DistinctLimits)
        /\ IsLimitScenario => Preamble.ld_unicos = <<"1", "2">>

----------------------------------------------------------------------------
(* Properties of the column grouping, of repeated runs and of loading *)

\* a column named by the documented convention: lim_inf_*, lim_sup_*,
\* ISQG_<environment> or PEL_<environment>
FollowsConvention(col) ==
    \/ (Len(col) >= 3 /\ col[1] = "lim" /\ col[2] \in {"inf", "sup"})
    \/ (Len(col) = 2 /\ col[1] \in {"ISQG", "PEL"}
                     /\ col[2] \in {"freshwater", "marine"})

\* the groups that list a column
GroupsHolding(col) ==
    {g \in 1..Len(reg_groups) :
        \E i \in 1..Len(reg_groups[g].cols) : reg_groups[g].cols[i] = col}

\* the column names generate_text_sediments reads
SedimentColumnsRead ==
    {<<"ISQG", "freshwater">>, <<"PEL", "freshwater">>,
     <<"ISQG", "marine">>, <<"PEL", "marine">>}

\* C14: every threshold column of the merged frame that follows the naming
\* convention is returned by get_regulation_columns and listed in exactly one
\* group, and a column grouped as a sediment threshold is one of the columns
\* generate_text_sediments reads
C14_ConventionColumnsGrouped ==
    (Merged /\ page # "groundwater") =>
        /\ \A i \in 1..Len(df_final.header) :
               LET col == df_final.header[i] IN
               FollowsConvention(col) =>
                   /\ \E j \in 1..Len(get_regulation_columns(df_final)) :
                          get_regulation_columns(df_final)[j] = col
                   /\ Cardinality(GroupsHolding(col)) = 1
        /\ \A g \in 1..Len(reg_groups) : \A i \in 1..Len(reg_groups[g].cols) :
               LET col == reg_groups[g].cols[i] IN
               col[1] # "lim" => col \in SedimentColumnsRead

MissingSheets ==
    /\ xls.readable
    /\ \/ "datos" \notin DOMAIN xls.sheets
       \/ DOMAIN xls.sheets \cap {"eca", "lmp", "normativa"} = {}

\* C16: for a workbook that lacks a required sheet load_data returns a message
\* and no data, the message is shown to the user, no exception escapes and
\* nothing is cleaned or merged
C16_MissingSheetReported ==
    (pc # "uploaded" /\ MissingSheets) =>
        /\ load_data(xls).data = NoData
        /\ load_data(xls).error # NoError
        /\ exception = ""
        /\ st_error = <<load_data(xls).error>>
        /\ df_clean = EmptyFrame
        /\ df_final = EmptyFrame

----------------------------------------------------------------------------
(* Properties of the surface clauses, of the statistics sentence and of the *)
(* groundwater narrative                                                    *)

\* the place in the selection where a key is first met
FirstPos(key) ==
    CHOOSE i \in 1..Len(selected_regulations) :
        /\ KeyOf(selected_regulations[i]) = key
        /\ \A j \in 1..(i - 1) : KeyOf(selected_regulations[j]) # key

\* C17: in the surface narrative the clauses follow the order in which their
\* keys are first met in the selection, the combined 3D1/3D2 clause included
C17_ClausesInEncounterOrder ==
    Done("surface") =>
        \A A \in SelectedKeys : \A B \in SelectedKeys :
            FirstPos(A) < FirstPos(B) =>
                \A ca \in ClausesAbout(A) : \A cb \in ClausesAbout(B) : ca <= cb

\* the keys the per-key loop of the surface module handles
LoopKeys ==
    IF Selected(k1) /\ Selected(k2) THEN SelectedKeys \ {k1, k2} ELSE SelectedKeys

\* the clause kind the violation count of a key against both its bounds calls for
ExpectedKind(key) ==
    LET vals == informe.valores_numericos
        vc == ViolationCount(vals, Threshold(Inf(key)), Threshold(Sup(key)))
    IN  IF BothNull(key) THEN "no_existe"
        ELSE IF vc = 0 THEN "cumplen"
        ELSE IF vc = Len(vals) THEN "no_cumplen"
        ELSE "parcial"

\* C18: every key of the surface per-key loop gets exactly one clause, of the
\* kind its violation count against both bounds calls for, a partial clause
\* showing that count and a percentage
C18_OneClausePerKey ==
    Done("surface") =>
        \A key \in LoopKeys :
            /\ Cardinality(IndividualClauses(key)) = 1
            /\ ClausesAbout(key) = IndividualClauses(key)
            /\ \A ci \in IndividualClauses(key) :
                   /\ Clauses[ci].kind = ExpectedKind(key)
                   /\ Clauses[ci].kind \in {"no_existe", "cumplen", "no_cumplen", "parcial"}
                   /\ IF Clauses[ci].kind = "parcial"
                      THEN /\ Clauses[ci].n = ToString(ViolationCount(
                                   informe.valores_numericos,
                                   Threshold(Inf(key)), Threshold(Sup(key))))
                           /\ Clauses[ci].pct # ""
                      ELSE Clauses[ci].n = "" /\ Clauses[ci].pct = ""

C18_Witness ==
    /\ Done("surface")
    /\ selected_regulations = <<Sup(k1), Inf(k1)>>
    /\ informe.valores_numericos = <<2 * Scale, 10 * Scale>>
    /\ Threshold(Inf(k1)) = Num(5 * Scale)
    /\ Len(Clauses) = 1
    /\ Clauses[1].kind = "parcial"
    /\ Clauses[1].n = "1"

\* the records of the selected parameter that carry a true detection-limit flag
Flagged ==
    LET rows == grupo_of(df_final, selected_param).rows
    IN  {i \in 1..Len(rows) : <<"es", "LD">> \in df_final.columns /\ rows[i].es_LD}

RecordCount == Len(grupo_of(df_final, selected_param).rows)

\* C19: the statistics sentence is the below-detection-limit one when every
\* record is flagged, the min/max/mean one when none is, the hybrid one
\* otherwise: one of the three for every non-empty record set
C19_PreambleForm ==
    (pc = "done" /\ RecordCount > 0) =>
        /\ Preamble.form \in {"todos_LD", "sin_LD", "mixto"}
        /\ Preamble.form = "todos_LD" <=> Cardinality(Flagged) = RecordCount
        /\ Preamble.form = "sin_LD" <=> Flagged = {}
        /\ Preamble.form = "mixto" <=>
               (Flagged # {} /\ Cardinality(Flagged) < RecordCount)

C19_Witness ==
    /\ pc = "done"
    /\ RecordCount = 3
    /\ Cardinality(Flagged) = 2
    /\ Preamble.form = "mixto"
    /\ Preamble.ld_unicos = <<"2,0", "2,5">>

\* the values in units of their greatest common divisor
InUnits(vals) ==
    LET g == IF GcdSeq(vals) = 0 THEN 1 ELSE GcdSeq(vals)
    IN  [i \in 1..Len(vals) |-> vals[i] \div g]

\* the values strictly above mean + 2 * sd (side 1) or strictly below
\* mean - 2 * sd (side -1), sd being the sample standard deviation, 0 for a
\* single record: x is beyond the reference when n * x - sum has the sign of
\* the side and (n * x - sum)^2 * (n - 1) > 4 * sum of the (n * y - sum)^2
BeyondReference(vals, side) ==
    LET w == InUnits(vals)
        n == Len(w)
        total == SumSeq(w)
        spread == SumSquares([j \in 1..n |-> n * w[j] - total])
    IN  {i \in 1..n :
            /\ side * (n * w[i] - total) > 0
            /\ (n * w[i] - total) * (n * w[i] - total) * (n - 1) > 4 * spread}

\* the result a count calls for
ExpectedResult(count, total) ==
    IF count = 0 THEN [kind |-> "ninguno", n |-> ""]
    ELSE IF count = total THEN [kind |-> "totalidad", n |-> ""]
    ELSE [kind |-> "parcial", n |-> ToString(count)]

Shows(res, expected) == res.kind = expected.kind /\ res.n = expected.n

\* C20: the groundwater narrative is the statistics sentence alone when both
\* flags are false; otherwise an intro naming the flagged references, high
\* before low, joined by " y ", and one comparison sentence with the result of
\* each flagged side, joined by "; mientras que " when both are flagged, each
\* result chosen by the zero / all / partial count of values beyond its
\* reference
C20_GroundwaterNarrative ==
    Done("groundwater") =>
        LET alto == informe.flags[1]
            bajo == informe.flags[2]
            vals == informe.valores_numericos
            sides == (IF alto THEN <<"alto">> ELSE <<>>)
                     \o (IF bajo THEN <<"bajo">> ELSE <<>>)
        IN  IF ~alto /\ ~bajo THEN Clauses = <<>>
            ELSE /\ Len(Clauses) = 2
                 /\ Clauses[1].tpl = "gw_intro"
                 /\ Clauses[1].partes_intro = sides
                 /\ Clauses[1].sep = " y "
                 /\ Clauses[2].tpl = "gw_comparacion"
                 /\ Clauses[2].lados = sides
                 /\ Clauses[2].sep = (IF alto /\ bajo THEN "; mientras que " ELSE "")
                 /\ alto => Shows(Clauses[2].res_alto,
                                  ExpectedResult(Cardinality(BeyondReference(vals, 1)),
                                                 Len(vals)))
                 /\ bajo => Shows(Clauses[2].res_bajo,
                                  ExpectedResult(Cardinality(BeyondReference(vals, -1)),
                                                 Len(vals)))
                 /\ ~alto => Clauses[2].res_alto = NoResult
                 /\ ~bajo => Clauses[2].res_bajo = NoResult

C20_Witness ==
    /\ Done("groundwater")
    /\ informe.flags = <<TRUE, TRUE>>
    /\ Len(informe.valores_numericos) = 6
    /\ Clauses[2].res_alto.kind = "parcial"
    /\ Clauses[2].res_alto.n = "1"
    /\ Clauses[2].res_alto.pct = "16,67"
    /\ Clauses[2].res_bajo.kind = "ninguno"

----------------------------------------------------------------------------
(* Properties of the degradation paths: absent columns, empty record sets,  *)
(* unmapped keys                                                            *)

\* the columns that hold the bounds of an active key
ColumnsOf(key) == IF page = "sediments" THEN {key} ELSE {Inf(key), Sup(key)}

ColumnsAbsent(key) == ColumnsOf(key) \cap df_final.columns = {}

\* the places (clause, evaluation) where the narrative is about a key
Evaluations(key) ==
    {x \in (1..Len(Clauses)) \X (1..2) :
        /\ x[2] <= Len(Clauses[x[1]].ev)
        /\ Clauses[x[1]].ev[x[2]].key = key}

\* C21: an active key whose threshold columns are absent from the record set
\* raises nothing: both its bounds are looked up as null and the narrative
\* states the standard as not existing, in the surface, effluents and
\* sediments modules
C21_AbsentColumnsNotApplicable ==
    /\ pc = "aborted" => RecordCount = 0
    /\ (pc = "done" /\ page \in {"surface", "effluents", "sediments"}) =>
           \A k \in 1..Len(informe.active) :
               LET key == informe.active[k] IN
               ColumnsAbsent(key) =>
                   /\ Evaluations(key) # {}
                   /\ \A x \in Evaluations(key) :
                          /\ isna(Clauses[x[1]].ev[x[2]].inf)
                          /\ isna(Clauses[x[1]].ev[x[2]].sup)
                          /\ Clauses[x[1]].ev[x[2]].inc = None
                          /\ Statement(Clauses[x[1]], x[2]) = "no_existe"

\* the same for the keys that the combined 3D1/3D2 clause does not handle
AbsentColumnsOutsideCombined ==
    /\ pc = "aborted" => RecordCount = 0
    /\ (pc = "done" /\ page \in {"surface", "effluents", "sediments"}) =>
           \A k \in 1..Len(informe.active) :
               LET key == informe.active[k] IN
               (ColumnsAbsent(key) /\ (page = "surface" => key \in LoopKeys)) =>
                   /\ Evaluations(key) # {}
                   /\ \A x \in Evaluations(key) :
                          /\ isna(Clauses[x[1]].ev[x[2]].inf)
                          /\ isna(Clauses[x[1]].ev[x[2]].sup)
                          /\ Clauses[x[1]].ev[x[2]].inc = None
                          /\ Statement(Clauses[x[1]], x[2]) = "no_existe"

AbsentColumnsWitness ==
    /\ pc = "done"
    /\ \E k \in 1..Len(informe.active) : ColumnsAbsent(informe.active[k])

\* the columns of the merged frame that get_regulation_groups is given
GroupedColumns ==
    {df_final.header[i] : i \in {j \in 1..Len(df_final.header) :
                                   df_final.header[j][1] \in {"lim", "ISGQ", "PEL"}}}

\* the place of a column in the merged frame
ColumnPos(col) == CHOOSE i \in 1..Len(df_final.header) : df_final.header[i] = col

\* what is left of a column name without its bound indicator: (family,
\* version, category) of lim_inf_* / lim_sup_*; for a sediment threshold the
\* threshold name is the indicator and the environment the category
Identity(col) ==
    IF col[1] = "lim" THEN SubSeq(col, 3, Len(col)) ELSE <<"CCME">> \o Tail(col)

SameGroup(a, b) == GroupsHolding(a) \cap GroupsHolding(b) # {}

C23_InputsUnchanged ==
    /\ Cleaned => df_datos = xls.sheets["datos"]
    /\ pc = "done" =>
           /\ grupo_left.columns = grupo_of(df_final, selected_param).columns
           /\ grupo_left.header = grupo_of(df_final, selected_param).header
           /\ grupo_left.rows = grupo_of(df_final, selected_param).rows

\* the part of it about clean_data
CleanDataCopies == Cleaned => df_datos = xls.sheets["datos"]

\* C24: a generator called on a parameter without records (total_count = 0)
\* does not abort: no exception escapes, the narrative is produced and every
\* percentage of it is shown as "NaN"
C24_ZeroRecordsNoAbort ==
    (pc \in {"done", "aborted"} /\ RecordCount = 0) =>
        /\ exception = ""
        /\ pc = "done"
        /\ \A ci \in 1..Len(Clauses) : \A idx \in 1..Len(Clauses[ci].ev) :
               Clauses[ci].ev[idx].inc # None => PctShown(Clauses[ci], idx) = "NaN"

\* the description and the category label the narrative is to show for the
\* keys of the model: the reg_meta entry, or no description and the key in
\* upper case with spaces for underscores
ExpectedMeta(key) ==
    CASE key = k_1a1 -> <<"aguas que pueden ser potabilizadas con desinfeccion", "1 - A1">>
      [] key = k1 -> <<"riego de vegetales", "3 - D1">>
      [] key = k2 -> <<"bebida de animales", "3 - D2">>
      [] key = k_2008 -> <<"", "ECA 2008 1A2">>

\* C25: in the surface per-key loop a key without a reg_meta entry is shown
\* with an empty description and its upper-cased, space-separated key as the
\* category label, and a key with an entry with the entry's description and
\* label
C25_MetaOrGenericLabel ==
    Done("surface") =>
        \A key \in LoopKeys : \A ci \in IndividualClauses(key) :
            /\ Clauses[ci].desc = ExpectedMeta(key)[1]
            /\ Clauses[ci].cat = ExpectedMeta(key)[2]
            /\ key \in DOMAIN reg_meta <=> key # k_2008

C25_Witness ==
    /\ Done("surface")
    /\ \E ci \in IndividualClauses(k_2008) :
           Clauses[ci].desc = "" /\ Clauses[ci].cat = "ECA 2008 1A2"
                                /\ Clauses[ci].std = "ECA 2008"
    /\ \E ci \in IndividualClauses(k_1a1) : Clauses[ci].cat = "1 - A1"

\* a surface per-key clause reporting some but not all records in violation
PartialKeyClauses ==
    {ci \in 1..Len(Clauses) :
        /\ Clauses[ci].tpl = "surface_key"
        /\ Clauses[ci].ev[1].inc.k = "num"
        /\ 0 < Clauses[ci].ev[1].inc.v
        /\ Clauses[ci].ev[1].inc.v < Clauses[ci].ev[1].n_total}

\* C26: a surface per-key clause reporting a partial violation never shows a
\* percentage of 0 or of 100
C26_PartialPercentNotWhole ==
    Done("surface") =>
        \A ci \in PartialKeyClauses :
            Clauses[ci].pct \notin {"0", "0,0", "100", "100,0"}

\* 1 of MaxLarge records in violation is reported as a partial clause
OneOfManyIsPartial ==
    /\ Done("surface")
    /\ \E ci \in PartialKeyClauses :
           /\ Clauses[ci].ev[1].inc.v = 1
           /\ Clauses[ci].ev[1].n_total = MaxLarge
           /\ Clauses[ci].kind = "parcial"
           /\ Clauses[ci].n = "1"

\* C27: in the groundwater narrative the values strictly above the high
\* reference, and those strictly below the low one, are fewer than the
\* records, so neither side ever reports the whole of the records
C27_TotalidadUnreachable ==
    Done("groundwater") =>
        \A ci \in 1..Len(Clauses) :
            Clauses[ci].tpl = "gw_comparacion" =>
                /\ Clauses[ci].res_alto.kind # "totalidad"
                /\ Clauses[ci].res_bajo.kind # "totalidad"

\* with the compensated sum() no side reports the whole of the records
CompensatedSumNoTotalidad ==
    (Done("groundwater") /\ informe.build = "sum_compensated") =>
        \A ci \in 1..Len(Clauses) :
            Clauses[ci].tpl = "gw_comparacion" =>
                /\ Clauses[ci].res_alto.kind # "totalidad"
                /\ Clauses[ci].res_bajo.kind # "totalidad"

\* eight records of 0.7 are reported as all below the low reference
TotalidadBelow ==
    /\ Done("groundwater")
    /\ informe.valores_numericos = Repeat(700, 8)
    /\ informe.flags = <<TRUE, TRUE>>
    /\ Clauses[2].res_bajo.kind = "totalidad"
    /\ Clauses[2].res_alto.kind = "ninguno"

\* the records of the selected parameter in the merged frame
SelectedRows == SelectSeq(df_final.rows, LAMBDA r : r.parametro = selected_param)

\* the reference the narrative names for a side, if it names it
NarrativeReferences(lado) ==
    UNION {{Clauses[ci].refs[k] : k \in {j \in 1..Len(Clauses[ci].refs) :
                                            Clauses[ci].partes_intro[j] = lado}}
           : ci \in {i \in 1..Len(Clauses) : Clauses[i].tpl = "gw_intro"}}

\* C28: for the records of one parameter the reference value of the dataset
\* (calculate_reference_statistics, mean_plus_2std) is the high reference of
\* the groundwater narrative, one record included, and the mean_minus_2std
\* method gives the narrative's low reference
C28_DatasetReferenceIsNarrativeReference ==
    (Done("groundwater") /\ SelectedRows # <<>>) =>
        /\ \A ref \in NarrativeReferences("alto") :
               /\ \A i \in 1..Len(SelectedRows) :
                      SelectedRows[i].lim[lim_referencia_gw] = ref
               /\ calculate_reference_statistics(SelectedRows, "mean_plus_2std") = ref
        /\ \A ref \in NarrativeReferences("bajo") :
               calculate_reference_statistics(SelectedRows, "mean_minus_2std") = ref

\* the two agree as exact quantities for every parameter with two or more records
SeveralRecordsSameReference ==
    (Done("groundwater") /\ Len(SelectedRows) > 1) =>
        /\ \A ref \in NarrativeReferences("alto") :
               \A i \in 1..Len(SelectedRows) :
                   SelectedRows[i].lim[lim_referencia_gw] = ref
        /\ \A ref \in NarrativeReferences("bajo") :
               calculate_reference_statistics(SelectedRows, "mean_minus_2std") = ref

\* one record: the dataset reference is not a number, the narrative's is the value
OneRecordReferences ==
    /\ Done("groundwater")
    /\ Len(SelectedRows) = 1
    /\ SelectedRows[1].lim[lim_referencia_gw].sd = "nan"
    /\ \E ref \in NarrativeReferences("alto") : ref.sd = "num"

\* the effluent standards in the order of the narrative: NMP 1996 minero, LMP
\* 2010 minero, LMP 2010 domestico
EffluentOrder == <<k_nmp, k_lmp_min, k_lmp_dom>>

\* whether a selected column holds a bound of the standard
StandardSelected(std) ==
    \E i \in 1..Len(selected_regulations) : selected_regulations[i] \in {Inf(std), Sup(std)}

\* C29: the effluent clauses are those of the standards with a selected
\* column, one clause each, in the order NMP minero, LMP minero, LMP
\* domestico whatever the order of the selection
C29_EffluentClausesInFixedOrder ==
    Done("effluents") =>
        /\ [ci \in 1..Len(Clauses) |-> Clauses[ci].keys[1]]
               = SelectSeq(EffluentOrder, StandardSelected)
        /\ \A ci \in 1..Len(Clauses) : Clauses[ci].tpl = "effluent"
        /\ Len(Clauses) <= 3

C29_Witness ==
    /\ Done("effluents")
    /\ selected_regulations = <<Sup(k_lmp_dom), Sup(k_nmp)>>
    /\ Len(Clauses) = 2
    /\ Clauses[1].keys = <<k_nmp>>
    /\ Clauses[2].keys = <<k_lmp_dom>>

\* the clauses comparing the records with a sediment threshold
ThresholdClauses ==
    {ci \in 1..Len(Clauses) :
        /\ Clauses[ci].tpl = "sediment"
        /\ Clauses[ci].kind \in {"cumplen", "exceden", "parcial"}}

SelectedColumns == {selected_regulations[i] : i \in 1..Len(selected_regulations)}

\* C30: the sediments narrative compares the records only with thresholds
\* whose column is selected: none for an empty selection, and no ISQG clause
\* when only the PEL column of an environment is selected
C30_OnlySelectedThresholds ==
    Done("sediments") =>
        \A ci \in ThresholdClauses : Clauses[ci].keys[1] \in SelectedColumns

\* an empty selection is narrated against the marine ISQG
EmptySelectionCompared ==
    /\ Done("sediments")
    /\ selected_regulations = <<>>
    /\ \E ci \in ThresholdClauses : Clauses[ci].keys[1] = <<"ISQG", "marine">>

\* the PEL column of fresh water alone is narrated against the ISQG as well
PelAloneComparedWithIsqg ==
    /\ Done("sediments")
    /\ selected_regulations = <<(<<"PEL", "freshwater">>)>>
    /\ \E ci \in ThresholdClauses : Clauses[ci].keys[1] = <<"ISQG", "freshwater">>

====
